---- MODULE Spec2Model ----
(***************************************************************************)
(* Worker-orchestration substrate of the Reddit scraper: the SQLite-backed *)
(* account pool (scraping/reddit/session_pool.py), the worker loop of the  *)
(* orchestrator (scraping/reddit/worker_orchestrator.py) and the account   *)
(* health manager (scripts/account_pool_manager.py), which share the       *)
(* accounts table.  Every SQL statement is one atomic step; a handler that *)
(* issues several statements, or awaits between them, is several steps.    *)
(***************************************************************************)
EXTENDS Integers, FiniteSets, Sequences, TLC

\* ---------------------------------------------------------------- bounds
\* Number of clock advances explored.
MaxTicks == 1
\* Number of jobs the workers start, in total.  With the cycles below it
\* also bounds fail_count, which each job or probe raises by at most one.
MaxJobs == 2
\* Number of maintenance cycles the health manager starts.
MaxCycles == 1
\* Number of orchestration ticks the supervisor starts.
MaxSupTicks == 2
\* limiter: clock advances beside the callers, and calls made in all
MaxRlTicks == 1
MaxCalls == 3
\* limiter: latest time at which a poll sleep still ends on time
MaxRlNow == 8
MaxQueueCalls == 5
MaxJqNow == 2

\* ------------------------------------------------------ program constants
\* AccountPool.__init__(cooldown_seconds=60)
cooldown_seconds == 60
\* worker_task: pool.cooldown(lease, seconds=120, reason="rate-limit")
WORKER_COOLDOWN == 120
\* account_pool_manager: COOLDOWN_BAD, COOLDOWN_RATE, QUARANTINE_FAILS
COOLDOWN_BAD == 60
COOLDOWN_RATE == 120
QUARANTINE_FAILS == 5
\* AccountPool.acquire: await asyncio.sleep(1.0)
ACQUIRE_BACKOFF == 1

\* worker_orchestrator: ORCH_JOB_COOLDOWN_MIN, ORCH_JOB_COOLDOWN_MAX defaults
JOB_COOLDOWN_MIN == 1200
JOB_COOLDOWN_MAX == 1800
\* rate_limiter.py counts seconds and tokens in floats; here time is in
\* ticks of 50 ms and tokens in twentieths, so that refill_rate (tokens per
\* second) is also twentieths per tick.
\* rate_limiter.py:85 asyncio.sleep(0.1)
POLL_SLEEP == 2
\* rate_limiter.py:100 default bucket: capacity 5.0, tokens 5.0, refill 5.0
DEFAULT_CAPACITY == 100
DEFAULT_TOKENS == 100
DEFAULT_REFILL == 5

Accounts == {"a1", "a2", "a3"}
\* Account ids that add_account is called with.
Seeded == {"a1", "a2"}
Workers == {"w1", "w2"}
\* The worker task of each worker id: WorkerOfId[k + 1] runs worker-k.
WorkerOfId == <<"w1", "w2">>
Pools == {"p1", "p2"}
\* Clock advances explored: one cooldown base at a time.
TickSteps == {60}

\* Job ids a scraping_config.json may hold as Reddit.custom entries.
Jobs == {"j1", "j2"}
\* Values of random.randint(JOB_COOLDOWN_MIN, JOB_COOLDOWN_MAX) explored.
JobCooldownWindows == {JOB_COOLDOWN_MIN, JOB_COOLDOWN_MAX}

NoJob == "none"
\* state.get(jid) of a job id with no entry
NoEntry == [last_run_ts |-> 0, next_eligible_ts |-> 0, absent |-> TRUE]

NULL == "NULL"
NoRow == [status |-> "absent"]
NoCkpt == [worker_id |-> "absent"]
\* params.label of each job of the catalog
JobLabel == [j \in Jobs |-> "r_" \o j]
\* (last_post_id, last_comment_id) that _extract_last_ids may return: no
\* item decoded, or the last t3_ and t1_ fullnames seen.
ExtractedIds == {<<NULL, NULL>>, <<"t3_p", "t1_c">>}
\* AccountCredential values a seed file may carry for an account, and the
\* one of the seed file as first written.
Creds == {"c1", "c2"}
SeedCred == "c1"
NoAccount == "none"
Free == "free"

\* Callers of the one SqliteTokenBucketLimiter of a process.
Callers == {"k1", "k2"}
\* SqliteTokenBucketLimiter instances, of one or of several processes.
Limiters == {"l1", "l2"}
NoBucket == [capacity |-> "absent"]
NoCall == [op |-> "none"]
NoAttempt == [now |-> "none"]
NoDeadline == -1
\* ensure_bucket arguments: capacity 2.0 refill 1.0 (the test's bucket),
\* capacity 10.0 refill 5.0, and an empty bucket that never refills.
EnsureArgs ==
    {[capacity |-> 40, refill_rate |-> 1],
     [capacity |-> 200, refill_rate |-> 5],
     [capacity |-> 0, refill_rate |-> 0]}
\* acquire arguments: 1.0 or 10.0 tokens; no timeout or 0.15 s.
Requests == {20, 200}
Timeouts == {NoDeadline, 3}
\* Clock advance beside the callers: 3 s.
RlSteps == {60}
\* test_rate_limiter_bucket: the task that runs it, its bucket (capacity
\* 2.0, refill 1.0), and the tokens (1.0) and timeout (0.1 s) of its calls.
TestCaller == "k1"
TestBucket == [capacity |-> 40, refill_rate |-> 1]
TestTokens == 20
TestTimeout == 2

\* Checkpointer: job ids, and JSON text as the sequence of its tokens.
CpJobs == {"job-1", "job-2"}
LBrace == [t |-> "{"]
RBrace == [t |-> "}"]
Colon == [t |-> ":"]
Comma == [t |-> ","]
Str(x) == [t |-> "str", s |-> x]
Num(n) == [t |-> "num", n |-> n]
Null == [t |-> "null"]
\* Python values held by a checkpoint: str, int, None.
PyStr(x) == [py |-> "str", val |-> x]
PyInt(n) == [py |-> "int", val |-> n]
PyNone == [py |-> "NoneType"]
\* A checkpoint is a dict: its items in insertion order, keys distinct.
Item(key, value) == [k |-> key, v |-> value]
Dict(items) == [kind |-> "dict", items |-> items]
\* None, as a checkpoint saved or returned.
NoDict == [kind |-> "None"]
\* No row for the job_id.
NoPayload == <<[t |-> "no row"]>>
\* No load_progress made yet; one called and not yet answered.
NoLoad == [job |-> "none", value |-> NoDict]
Pending == [kind |-> "pending"]
\* The checkpoints saved: the empty object, the test's ids, a null and a
\* number.
CpPayloads ==
    {Dict(<<>>),
     Dict(<<Item("last_submission_id", PyStr("t3_abc"))>>),
     Dict(<<Item("last_submission_id", PyStr("t3_abc")),
            Item("last_comment_id", PyStr("t1_def"))>>),
     Dict(<<Item("last_comment_id", PyNone), Item("count", PyInt(7))>>)}

\* Worker -> AccountPool instance.  The orchestrator's workers share the one
\* pool built by orchestrate (line 354).
SharedPool == [w \in Workers |-> "p1"]
\* Two processes, each with its own AccountPool on the same accounts.db.
SeparatePools == [w \in Workers |-> IF w = "w1" THEN "p1" ELSE "p2"]

VARIABLES
    rows,      \* accounts table: account_id -> row, or NoRow
    now,       \* time.time()
    ticks,     \* number of clock advances so far
    shutdown,  \* worker_orchestrator._shutdown
    poolOf,    \* the AccountPool instance each worker uses
    lock,      \* AccountPool._lock of each instance: holder or Free
    pc,        \* each worker task's position in worker_task
    lease,     \* worker_task local `lease` (its account_id), or NoAccount
    sel,       \* account_id read by the SELECT of _select_and_mark
    acqNow,    \* acquire's local `now` (line 249)
    err,       \* class of the exception caught at line 308
    errAt,     \* time at which the scrape failed
    flips,     \* release/cooldown/quarantine calls made on the current lease
    jobs,      \* number of jobs started so far, over all workers
    hmTodo,    \* health manager: accounts of to_check not yet written
    hmFails,   \* health manager: fail_count of the snapshot row
    cycles,    \* health manager: `cycle` of main
    msg,       \* str(e): the message of a caught exception
    workerClass, \* the class worker_task's handler gave msg
    hmClass,   \* the reason _health_probe returned for msg
    job,       \* worker_task local `job` (its id), or NoJob
    job_state, \* worker_task local `job_state`: job id -> entry
    jobFile,   \* contents of job_state.json: job id -> entry
    catalog,   \* job ids of the scraping_config.json the workers load
    supPc,     \* orchestrate's position, "off" where it is not running
    registry,  \* orchestrate's `workers`: worker ids in insertion order
    next_worker_id, \* orchestrate's next_worker_id
    ready,     \* orchestrate's `ready` of the current tick
    target_workers, \* orchestrate's target_workers of the current tick
    to_cancel, \* orchestrate's to_cancel
    reaped,    \* number of entries the current tick's reap loop popped
    health_failed, \* the current tick's health_report raised (health = {})
    supTicks,  \* number of orchestration ticks started
    ckAvail,   \* the worker checkpoints table exists and accepts an upsert
    ckpt,      \* worker checkpoints table: worker_id -> row, or NoCkpt
    started,   \* the start checkpoint of the worker's current run was written
    rlNow,     \* time.time() of the limiter's process, in ticks
    rlTicks,   \* number of clock advances beside the callers so far
    bucket,    \* buckets table: the row of the one bucket name, or NoBucket
    limiterOf, \* the SqliteTokenBucketLimiter instance each caller uses
    rlLock,    \* SqliteTokenBucketLimiter._lock of each instance: holder or Free
    rlPc,      \* each caller's position in ensure_bucket or acquire
    call,      \* arguments and locals of the caller's current call
    att,       \* _try_acquire_once locals: `now` and the row the SELECT read
    wake,      \* time at which the caller's asyncio.sleep(0.1) is due
    calls,     \* number of ensure_bucket and acquire calls made so far
    testPc,    \* test_rate_limiter_bucket's position, "off" where not run
    testIssued, \* times at which the test made its acquire calls so far
    testOk,    \* ok1, ok2, ok3, as far as bound
    cpTable,   \* Checkpointer's checkpoints table: job_id -> payload text
    cpSaved,   \* per job_id, the checkpoint of the last save_progress done
    cpLoaded,  \* the last load_progress call: its job_id and what it returned
    jqQueue,   \* jobs.json "queue": the list of queued jobs
    jqInflight, \* jobs.json "inflight": job id -> job, or NotInflight
    jqNow,     \* time.time() of the queue's process
    jqCount,   \* number of JobQueue calls made so far, by kind and outcome
    jqLast,    \* the last JobQueue call: its name, arguments and return value
    kwargs,    \* keyword arguments given to RedditScrapeOptions(...)
    planPc,    \* "new", then "constructed" or "raised", then "planned"
    computed_targets \* AdvancedScrapePlan.computed_targets

poolVars == <<rows, now, ticks>>
workerVars == <<shutdown, poolOf, lock, pc, lease, sel, acqNow, err, errAt, flips,
               jobs>>
hmVars == <<hmTodo, hmFails, cycles>>
clsVars == <<msg, workerClass, hmClass>>
jobVars == <<job, job_state, jobFile, catalog>>
supVars == <<supPc, registry, next_worker_id, ready, target_workers,
             to_cancel, reaped, health_failed, supTicks>>
ckVars == <<ckAvail, ckpt, started>>
rateVars == <<rlNow, rlTicks, bucket, limiterOf, rlLock, rlPc, call, att, wake,
             calls>>
testVars == <<testPc, testIssued, testOk>>
cpVars == <<cpTable, cpSaved, cpLoaded>>
queueVars == <<jqQueue, jqInflight, jqNow, jqCount, jqLast>>
planVars == <<kwargs, planPc, computed_targets>>
libVars == <<queueVars, planVars>>
storeVars == <<rateVars, testVars, cpVars, libVars>>
coreVars == <<poolVars, workerVars, hmVars, clsVars, jobVars, supVars, ckVars>>
vars == <<poolVars, workerVars, hmVars, clsVars, jobVars, supVars, ckVars,
          storeVars>>

\* ------------------------------------------------------------ accounts table
Present(a) == rows[a] # NoRow

\* _init_schema column defaults, as add_account's COALESCE(..., default);
\* cred stands for client_id, client_secret, username and password.
NewRow == [status |-> "ready", cooldown_until |-> 0, fail_count |-> 0,
           last_error |-> NULL, proxy_id |-> NULL, cred |-> SeedCred]

Max(x, y) == IF x >= y THEN x ELSE y
Min(x, y) == IF x <= y THEN x ELSE y

\* WHERE status='ready' AND cooldown_until <= ?
Eligible(t) ==
    { a \in Accounts : Present(a) /\ rows[a].status = "ready"
                                  /\ rows[a].cooldown_until <= t }

\* Mutant of SelectCandidates: the query without its ORDER BY.
SelectCandidates_Unordered(t) == Eligible(t)

\* ORDER BY fail_count ASC LIMIT 1: the rows the query may return
SelectCandidates(t) ==
    { a \in Eligible(t) : \A b \in Eligible(t) :
                              rows[a].fail_count <= rows[b].fail_count }

\* UPDATE accounts SET status='leased' WHERE account_id=?
MarkLeased(r) == [r EXCEPT !.status = "leased"]

\* Mutant of ReleaseRow: the success branch without MAX(..., 0).
ReleaseRow_Unclamped(r, success, t) ==
    IF success
    THEN [r EXCEPT !.status = "ready",
                   !.cooldown_until = t + Max(0, cooldown_seconds \div 4),
                   !.fail_count = r.fail_count - 1]
    ELSE [r EXCEPT !.status = "ready",
                   !.cooldown_until = t + cooldown_seconds,
                   !.fail_count = r.fail_count + 1]

\* AccountPool.release, _update
ReleaseRow(r, success, t) ==
    IF success
    THEN [r EXCEPT !.status = "ready",
                   !.cooldown_until = t + Max(0, cooldown_seconds \div 4),
                   !.fail_count = Max(r.fail_count - 1, 0)]
    ELSE [r EXCEPT !.status = "ready",
                   !.cooldown_until = t + cooldown_seconds,
                   !.fail_count = r.fail_count + 1]

\* Mutant of CooldownRow: the UPDATE also counting a failure, as the health
\* manager's _cooldown does.
CooldownRow_Counting(r, seconds, reason, t) ==
    [r EXCEPT !.status = "ready", !.cooldown_until = t + seconds,
              !.fail_count = r.fail_count + 1, !.last_error = reason]

\* AccountPool.cooldown, _cd
CooldownRow(r, seconds, reason, t) ==
    [r EXCEPT !.status = "ready", !.cooldown_until = t + seconds,
              !.last_error = reason]

\* AccountPool.quarantine, _q
QuarantineRow(r, reason) ==
    [r EXCEPT !.status = "quarantine", !.last_error = reason]

\* Mutant of AddRow: INSERT OR REPLACE without the COALESCE subqueries.
AddRow_Reset(r, c) == [NewRow EXCEPT !.cred = c]

\* add_account, _add: INSERT OR REPLACE with the credentials given and, for
\* every runtime column, COALESCE(the column of the existing row, default).
AddRow(r, c) ==
    IF r # NoRow
    THEN [status |-> r.status, cooldown_until |-> r.cooldown_until,
          fail_count |-> r.fail_count, last_error |-> r.last_error,
          proxy_id |-> r.proxy_id, cred |-> c]
    ELSE [NewRow EXCEPT !.cred = c]

\* An UPDATE ... WHERE account_id=? touches the row only if it exists.
UpdateRow(a, r) == IF Present(a) THEN [rows EXCEPT ![a] = r] ELSE rows

\* ------------------------------------------------------------------- Init
\* The accounts table as given, no worker started yet.
InitTableWith(table, assignment) ==
    /\ rows = table
    /\ now = 0
    /\ ticks = 0
    /\ shutdown = FALSE
    /\ poolOf = assignment
    /\ lock = [p \in Pools |-> Free]
    /\ pc = [w \in Workers |-> "top"]
    /\ lease = [w \in Workers |-> NoAccount]
    /\ sel = [w \in Workers |-> NoAccount]
    /\ acqNow = [w \in Workers |-> 0]
    /\ err = [w \in Workers |-> "none"]
    /\ errAt = [w \in Workers |-> 0]
    /\ flips = [w \in Workers |-> 0]
    /\ jobs = 0
    /\ hmTodo = {}
    /\ hmFails = [a \in Accounts |-> 0]
    /\ cycles = 0

\* A freshly bootstrapped store (no rows), no worker started yet.
InitTable(assignment) ==
    InitTableWith([a \in Accounts |-> NoRow], assignment)

\* No exception caught yet.
InitNoMessage ==
    /\ msg = <<>>
    /\ workerClass = "none"
    /\ hmClass = "none"

\* job_state.json does not exist; each worker_task has loaded {} from it.
\* scraping_config.json holds the jobs cat.
InitJobsOf(cat) ==
    /\ job = [w \in Workers |-> NoJob]
    /\ job_state = [w \in Workers |-> [j \in Jobs |-> NoEntry]]
    /\ jobFile = [j \in Jobs |-> NoEntry]
    /\ catalog = cat

\* A config of one job.
InitJobs == InitJobsOf({"j1"})

\* A store bootstrapped by AccountPool._init_schema: accounts and proxies
\* are created, the worker checkpoints table is not.
InitNoCheckpoints ==
    /\ ckAvail = FALSE
    /\ ckpt = [w \in Workers |-> NoCkpt]
    /\ started = [w \in Workers |-> FALSE]

\* A limiter just constructed on an empty ratelimiter.db; no call made.
InitLimiterWith(row, assignment) ==
    /\ rlNow = 0
    /\ rlTicks = 0
    /\ bucket = row
    /\ limiterOf = assignment
    /\ rlLock = [l \in Limiters |-> Free]
    /\ rlPc = [k \in Callers |-> "idle"]
    /\ call = [k \in Callers |-> NoCall]
    /\ att = [k \in Callers |-> NoAttempt]
    /\ wake = [k \in Callers |-> 0]
    /\ calls = 0

\* One limiter, used by every caller, on an empty store.
InitLimiter == InitLimiterWith(NoBucket, [k \in Callers |-> "l1"])

\* test_rate_limiter_bucket is not running.
InitNoTest ==
    /\ testPc = "off"
    /\ testIssued = <<>>
    /\ testOk = <<>>

\* A Checkpointer just constructed on an empty checkpoints.db.
InitCheckpointer ==
    /\ cpTable = [j \in CpJobs |-> NoPayload]
    /\ cpSaved = [j \in CpJobs |-> NoDict]
    /\ cpLoaded = NoLoad

\* Ids and weights of the jobs callers enqueue; ids may repeat.
JobIds == {"a", "b"}
JobWeights == {1, 5}
\* backoff_seconds a caller may pass to nack; 5 is the default.
Backoffs == {-1, 0, 5}

\* Job: a job of weight w, not yet enqueued (attempts 0, enqueued_at 0.0).
Job(i, w) == [id |-> i, weight |-> w, attempts |-> 0, enqueued_at |-> 0]

NotInflight == [id |-> "none", weight |-> 0, attempts |-> 0, enqueued_at |-> 0]
NoQueueCall == [op |-> "none", id |-> "none", backoff |-> 0, ret |-> "none"]

\* A JobQueue just constructed: _ensure_file wrote {"queue": [], "inflight": {}}.
InitQueue ==
    /\ jqQueue = <<>>
    /\ jqInflight = [i \in JobIds |-> NotInflight]
    /\ jqNow = 0
    /\ jqCount = [calls |-> 0, enqueue |-> 0, ack |-> 0, drop |-> 0]
    /\ jqLast = NoQueueCall

\* Python's None, and an Optional[List[...]] argument: None or a list.
None == "None"
NoList == [none |-> TRUE, list |-> <<>>]
Some(l) == [none |-> FALSE, list |-> l]

\* The field defaults of RedditScrapeOptions.
DefaultOptions ==
    [listing_types |-> <<"new", "hot", "top">>,
     time_filters |-> NoList,
     search_queries |-> NoList,
     search_sort |-> "new",
     user_timelines |-> NoList,
     per_listing_limit |-> 100]

\* RedditScrapeOptions(**kw) has not been called yet.
InitPlanWith(kw) ==
    /\ kwargs = kw
    /\ planPc = "new"
    /\ computed_targets = <<>>

InitLibs ==
    /\ InitQueue
    /\ InitPlanWith(DefaultOptions)

InitStores ==
    /\ InitLimiter
    /\ InitNoTest
    /\ InitCheckpointer
    /\ InitLibs

\* orchestrate's locals where the supervisor is not under study.
InitNoSupervisor ==
    /\ supPc = "off"
    /\ registry = <<>>
    /\ next_worker_id = 0
    /\ ready = 0
    /\ target_workers = 0
    /\ to_cancel = 0
    /\ reaped = 0
    /\ health_failed = FALSE
    /\ supTicks = 0

InitWith(assignment) ==
    /\ InitTable(assignment)
    /\ InitNoMessage
    /\ InitJobs
    /\ InitNoSupervisor
    /\ InitNoCheckpoints
    /\ InitStores

Init == InitWith(SharedPool)

\* --------------------------------------------------------------- environment
\* time.time() advances.
Tick(d) ==
    /\ ticks < MaxTicks
    /\ now' = now + d
    /\ ticks' = ticks + 1
    /\ UNCHANGED <<rows, workerVars, hmVars,
                   clsVars, ckVars, storeVars, jobVars, supVars>>

\* AccountPool.add_account(account_id, cred): one INSERT OR REPLACE.
AddAccount(a, c) ==
    /\ rows' = [rows EXCEPT ![a] = AddRow(rows[a], c)]
    /\ UNCHANGED <<now, ticks, workerVars, hmVars,
                   clsVars, ckVars, storeVars, jobVars, supVars>>

\* _handle_signal: SIGINT/SIGTERM sets the shared flag.
Signal ==
    /\ ~shutdown
    /\ shutdown' = TRUE
    /\ UNCHANGED <<poolVars, poolOf, lock, pc, lease, sel, acqNow, err, errAt,
                   flips, jobs, hmVars,
                   clsVars, ckVars, storeVars, jobVars, supVars>>

\* ---------------------------------------------------------------- job state
\* _job_ready: time.time() >= float(next_ts or 0), 0 for a missing entry
job_ready(j, state, t) == t >= state[j].next_eligible_ts

\* ready_jobs of worker w: the jobs of the config, by its own job_state
ReadyJobs(w) == { j \in catalog : job_ready(j, job_state[w], now) }

\* _mark_job_cooldown with window d
mark_job_cooldown(j, state, t, d) ==
    [state EXCEPT ![j] = [last_run_ts |-> t, next_eligible_ts |-> t + d,
                          absent |-> FALSE]]

\* ------------------------------------------------------- worker checkpoints
\* last_subreddit = scrape_config.labels[0].value if scrape_config.labels
\* else "all"
last_subreddit(j) == IF JobLabel[j] # NULL THEN JobLabel[j] ELSE "all"

\* WorkerCheckpointStore.upsert inside `try: ... except Exception: pass`:
\* INSERT ... ON CONFLICT(worker_id) DO UPDATE of every column, or, the
\* statement raising, nothing.
Upsert(w, a, sub, ids) ==
    IF ckAvail
    THEN [ckpt EXCEPT ![w] = [account_id |-> a, last_subreddit |-> sub,
                              last_post_id |-> ids[1],
                              last_comment_id |-> ids[2]]]
    ELSE ckpt

\* -------------------------------------------------------------- worker_task
\* Positions of a worker task: "top" is the loop test; every other position
\* is an await at which other tasks and processes run.
Goto(w, l) == pc' = [pc EXCEPT ![w] = l]
\* The iteration's `job` is dead: the next iteration assigns it anew.
ClearJob(w) == job' = [job EXCEPT ![w] = NoJob]
Flip(w) == flips' = [flips EXCEPT ![w] = flips[w] + 1]

\* `while not _shutdown` is false: the task returns.
WorkerStop(w) ==
    /\ pc[w] = "top" /\ shutdown
    /\ Goto(w, "exited")
    /\ UNCHANGED <<poolVars, shutdown, poolOf, lock, lease, sel, acqNow, err,
                   errAt, flips, jobs, hmVars,
                   clsVars, ckVars, storeVars, jobVars, supVars>>

\* No ready job: await asyncio.sleep(IDLE_SLEEP); continue.
WorkerIdle(w) ==
    /\ pc[w] = "top" /\ ~shutdown
    /\ ReadyJobs(w) = {}
    /\ Goto(w, "idle")
    /\ UNCHANGED <<poolVars, shutdown, poolOf, lock, lease, sel, acqNow, err,
                   errAt, flips, jobs, hmVars,
                   clsVars, ckVars, storeVars, jobVars, supVars>>

\* _weighted_choice picks one of the ready jobs; `lease = None` and the call
\* of pool.acquire(), which waits for `async with self._lock`.
WorkerPickJob(w) ==
    /\ pc[w] = "top" /\ ~shutdown
    /\ jobs < MaxJobs
    /\ jobs' = jobs + 1
    /\ \E j \in ReadyJobs(w) : job' = [job EXCEPT ![w] = j]
    /\ Goto(w, "acquire")
    /\ UNCHANGED <<poolVars, shutdown, poolOf, lock, lease, sel, acqNow, err,
                   errAt, flips, hmVars,
                   clsVars, ckVars, storeVars, job_state, jobFile, catalog, supVars>>

\* A sleep of the loop (IDLE_SLEEP, 10 s, 5 s) ends; back to the loop test.
\* The locals of the finished iteration are dead from here on.
WorkerWake(w) ==
    /\ pc[w] \in {"idle", "sleep10", "sleep5"}
    /\ Goto(w, "top")
    /\ lease' = [lease EXCEPT ![w] = NoAccount]
    /\ flips' = [flips EXCEPT ![w] = 0]
    /\ UNCHANGED <<poolVars, shutdown, poolOf, lock, sel, acqNow, err, errAt,
                   jobs, hmVars,
                   clsVars, ckVars, storeVars, jobVars, supVars>>

\* acquire: the lock is taken, `now = time.time()`, and the SELECT of the
\* first _select_and_mark returns a row.
AcquireSelect(w) ==
    /\ pc[w] = "acquire"
    /\ lock[poolOf[w]] = Free
    /\ \E a \in SelectCandidates(now) : sel' = [sel EXCEPT ![w] = a]
    /\ lock' = [lock EXCEPT ![poolOf[w]] = w]
    /\ lease' = [lease EXCEPT ![w] = NoAccount]
    /\ flips' = [flips EXCEPT ![w] = 0]
    /\ Goto(w, "mark")
    /\ UNCHANGED <<poolVars, shutdown, poolOf, acqNow, err, errAt, jobs, hmVars,
                   clsVars, ckVars, storeVars, jobVars, supVars>>

\* acquire: the first _select_and_mark returns None: asyncio.sleep(1.0),
\* holding the lock.
AcquireMiss(w) ==
    /\ pc[w] = "acquire"
    /\ lock[poolOf[w]] = Free
    /\ SelectCandidates(now) = {}
    /\ lock' = [lock EXCEPT ![poolOf[w]] = w]
    /\ acqNow' = [acqNow EXCEPT ![w] = now]
    /\ lease' = [lease EXCEPT ![w] = NoAccount]
    /\ flips' = [flips EXCEPT ![w] = 0]
    /\ Goto(w, "backoff")
    /\ UNCHANGED <<poolVars, shutdown, poolOf, sel, err, errAt, jobs, hmVars,
                   clsVars, ckVars, storeVars, jobVars, supVars>>

\* acquire: asyncio.sleep(1.0) returns on time: the clock is one backoff past
\* acquire's `now`.
BackoffElapse(w) ==
    /\ pc[w] = "backoff"
    /\ now < acqNow[w] + ACQUIRE_BACKOFF
    /\ now' = acqNow[w] + ACQUIRE_BACKOFF
    /\ UNCHANGED <<rows, ticks, workerVars, hmVars,
                   clsVars, ckVars, storeVars, jobVars, supVars>>

\* The backoff has elapsed; the second _select_and_mark (same `now`) selects.
RetrySelect(w) ==
    /\ pc[w] = "backoff"
    /\ now >= acqNow[w] + ACQUIRE_BACKOFF
    /\ \E a \in SelectCandidates(acqNow[w]) : sel' = [sel EXCEPT ![w] = a]
    /\ acqNow' = [acqNow EXCEPT ![w] = 0]
    /\ Goto(w, "mark")
    /\ UNCHANGED <<poolVars, shutdown, poolOf, lock, lease, err, errAt, flips,
                   jobs, hmVars,
                   clsVars, ckVars, storeVars, jobVars, supVars>>

\* Second miss: RuntimeError leaves the lock; worker_task prints, sleeps 10 s.
RetryFail(w) ==
    /\ pc[w] = "backoff"
    /\ now >= acqNow[w] + ACQUIRE_BACKOFF
    /\ SelectCandidates(acqNow[w]) = {}
    /\ lock' = [lock EXCEPT ![poolOf[w]] = Free]
    /\ acqNow' = [acqNow EXCEPT ![w] = 0]
    /\ ClearJob(w)
    /\ Goto(w, "sleep10")
    /\ UNCHANGED <<poolVars, shutdown, poolOf, lease, sel, err, errAt, flips,
                   jobs, hmVars,
                   clsVars, ckVars, storeVars, job_state, jobFile, catalog, supVars>>

\* _select_and_mark: the UPDATE and commit; acquire builds the lease, leaves
\* the lock and returns.  worker_task then builds the scrape config: either
\* it writes the start checkpoint (ids None) and goes on to the scrape, or
\* the build raises outside the inner try and the outer `except Exception`
\* sleeps 5 s.
Mark(w, built) ==
    /\ pc[w] = "mark"
    /\ rows' = UpdateRow(sel[w], MarkLeased(rows[sel[w]]))
    /\ lease' = [lease EXCEPT ![w] = sel[w]]
    /\ sel' = [sel EXCEPT ![w] = NoAccount]
    /\ lock' = [lock EXCEPT ![poolOf[w]] = Free]
    /\ Goto(w, IF built THEN "scrape" ELSE "sleep5")
    /\ IF built
       THEN /\ UNCHANGED job
            /\ ckpt' = Upsert(w, sel[w], last_subreddit(job[w]), <<NULL, NULL>>)
            /\ started' = [started EXCEPT ![w] = ckAvail]
       ELSE /\ ClearJob(w)
            /\ UNCHANGED <<ckpt, started>>
    /\ UNCHANGED <<now, ticks, shutdown, poolOf, acqNow, err, errAt, flips,
                   jobs, hmVars,
                   clsVars, ckAvail, storeVars, job_state, jobFile, catalog, supVars>>

\* scrape_advanced returns: _mark_job_cooldown on the worker's own
\* job_state, _save_json of that whole dict over job_state.json, the
\* checkpoint, and await lease.release(success=True).
ScrapeOk(w) ==
    /\ pc[w] = "scrape"
    /\ \E d \in JobCooldownWindows :
          LET state == mark_job_cooldown(job[w], job_state[w], now, d) IN
          /\ job_state' = [job_state EXCEPT ![w] = state]
          /\ jobFile' = state
    /\ UNCHANGED catalog
    /\ \E ids \in ExtractedIds :
          ckpt' = Upsert(w, lease[w], last_subreddit(job[w]), ids)
    /\ started' = [started EXCEPT ![w] = FALSE]
    /\ ClearJob(w)
    /\ rows' = UpdateRow(lease[w], ReleaseRow(rows[lease[w]], TRUE, now))
    /\ Flip(w)
    /\ Goto(w, "top")
    /\ UNCHANGED <<now, ticks, shutdown, poolOf, lock, lease, sel, acqNow, err,
                   errAt, jobs, hmVars,
                   clsVars, ckAvail, storeVars, supVars>>

\* scrape_advanced raises, _looks_rate_limited(msg):
\* await pool.cooldown(lease, seconds=120, reason="rate-limit")
ScrapeRateLimited(w) ==
    /\ pc[w] = "scrape"
    /\ rows' = UpdateRow(lease[w],
                   CooldownRow(rows[lease[w]], WORKER_COOLDOWN, "rate-limit", now))
    /\ Flip(w)
    /\ err' = [err EXCEPT ![w] = "rate-limit"]
    /\ errAt' = [errAt EXCEPT ![w] = now]
    /\ Goto(w, "release_fail")
    /\ UNCHANGED <<now, ticks, shutdown, poolOf, lock, lease, sel, acqNow,
                   jobs, hmVars,
                   clsVars, ckVars, storeVars, jobVars, supVars>>

\* scrape_advanced raises, _looks_auth_ban(msg):
\* await pool.quarantine(lease, reason="auth")
ScrapeAuthBan(w) ==
    /\ pc[w] = "scrape"
    /\ rows' = UpdateRow(lease[w], QuarantineRow(rows[lease[w]], "auth"))
    /\ Flip(w)
    /\ err' = [err EXCEPT ![w] = "auth"]
    /\ Goto(w, "release_fail")
    /\ UNCHANGED <<now, ticks, shutdown, poolOf, lock, lease, sel, acqNow,
                   errAt, jobs, hmVars,
                   clsVars, ckVars, storeVars, jobVars, supVars>>

\* scrape_advanced raises any other exception: straight to the release.
ScrapeOtherError(w) ==
    /\ pc[w] = "scrape"
    /\ err' = [err EXCEPT ![w] = "other"]
    /\ Goto(w, "release_fail")
    /\ UNCHANGED <<poolVars, shutdown, poolOf, lock, lease, sel, acqNow, errAt,
                   flips, jobs, hmVars,
                   clsVars, ckVars, storeVars, jobVars, supVars>>

\* await lease.release(success=False), the last call of all three branches
\* of the handler; then the error checkpoint and asyncio.sleep(10).
ReleaseFail(w) ==
    /\ pc[w] = "release_fail"
    /\ rows' = UpdateRow(lease[w], ReleaseRow(rows[lease[w]], FALSE, now))
    /\ Flip(w)
    /\ err' = [err EXCEPT ![w] = "none"]
    /\ errAt' = [errAt EXCEPT ![w] = 0]
    /\ ckpt' = Upsert(w, lease[w], last_subreddit(job[w]), <<NULL, NULL>>)
    /\ started' = [started EXCEPT ![w] = FALSE]
    /\ ClearJob(w)
    /\ Goto(w, "sleep10")
    /\ UNCHANGED <<now, ticks, shutdown, poolOf, lock, lease, sel, acqNow,
                   jobs, hmVars,
                   clsVars, ckAvail, storeVars, job_state, jobFile, catalog, supVars>>

\* Awaits of worker_task at which task.cancel() is delivered; "top" is the
\* await of lease.release(success=True) after its UPDATE has committed.
CancelPoints ==
    {"top", "idle", "sleep10", "sleep5", "acquire", "backoff", "mark", "scrape",
     "release_fail"}

\* task.done()
Done(w) == pc[w] \in {"exited", "cancelled"}

\* task.cancel() is delivered to worker_task.  CancelledError is not an
\* Exception: it passes the inner handlers and reaches
\* `except asyncio.CancelledError: break`, and the task returns.  Raised at
\* the sleep of the outer `except Exception` handler (line 342) it is
\* outside the try: the task ends cancelled.  `async with` leaves the pool
\* lock; a started _select_and_mark thread still runs its UPDATE.
CancelTask(w) ==
    /\ pc[w] \in CancelPoints
    /\ Goto(w, IF pc[w] = "sleep5" THEN "cancelled" ELSE "exited")
    /\ lock' = IF lock[poolOf[w]] = w
               THEN [lock EXCEPT ![poolOf[w]] = Free] ELSE lock
    /\ rows' = IF pc[w] = "mark"
               THEN UpdateRow(sel[w], MarkLeased(rows[sel[w]])) ELSE rows
    /\ sel' = [sel EXCEPT ![w] = NoAccount]
    /\ acqNow' = [acqNow EXCEPT ![w] = 0]
    /\ err' = [err EXCEPT ![w] = "none"]
    /\ errAt' = [errAt EXCEPT ![w] = 0]
    /\ ClearJob(w)
    /\ started' = [started EXCEPT ![w] = FALSE]
    /\ UNCHANGED <<now, ticks, shutdown, poolOf, lease, flips, jobs, hmVars,
                   clsVars, ckAvail, ckpt, storeVars, job_state, jobFile, catalog>>

\* orchestrate: task.cancel() on some worker, the supervisor not followed.
Cancel(w) ==
    /\ CancelTask(w)
    /\ UNCHANGED supVars

\* ------------------------------------------------------------- orchestrate
\* health_report()["ready"]: COUNT(*) of the rows with status 'ready'
HealthReady ==
    Cardinality({ a \in Accounts : Present(a) /\ rows[a].status = "ready" })

\* target_workers = max(0, int(ready * 0.75))
TargetWorkers(r) == Max(0, (r * 3) \div 4)

\* The task of worker id k.
TaskOf(k) == WorkerOfId[k + 1]

\* Mutant of NextToCancel: the newest registered worker first.
NextToCancel_Newest(reg) == reg[Len(reg)]

\* Scale-down: the first item of list(workers.items()) still registered.
NextToCancel(reg) == Head(reg)

\* Mutant of Pop: the awaited worker stays registered.
Pop_Keep(reg, k) == reg

\* workers.pop(wid, None)
Pop(reg, k) == SelectSeq(reg, LAMBDA x : x # k)

\* Reap dead tasks: pop every registered worker whose task is done, the
\* tasks being at positions p.
Reap(reg, p) ==
    SelectSeq(reg, LAMBDA k : p[TaskOf(k)] \notin {"exited", "cancelled"})

\* `while not _shutdown` holds: a tick starts with await pool.health_report().
SupBegin ==
    /\ supPc = "loop" /\ ~shutdown
    /\ supTicks < MaxSupTicks
    /\ supTicks' = supTicks + 1
    /\ supPc' = "report"
    /\ UNCHANGED <<poolVars, workerVars, hmVars, clsVars, ckVars, storeVars, jobVars, registry,
                   next_worker_id, ready, target_workers, to_cancel, reaped,
                   health_failed>>

\* health_report returns (ok) or raises (health = {}); target and current
\* are computed.  Scale-up creates the missing tasks, each loading
\* job_state.json when it starts; with nothing to cancel the reap loop and
\* the sleep follow.  Scale-down sets to_cancel and enters its loop.
SupReport(ok) ==
    LET r == IF ok THEN HealthReady ELSE 0
        t == TargetWorkers(r)
        current == Len(registry)
        add == IF t > current THEN t - current ELSE 0
        ids == [i \in 1..add |-> next_worker_id + i - 1]
        born == { TaskOf(ids[i]) : i \in 1..add }
        p == [w \in Workers |-> IF w \in born THEN "top" ELSE pc[w]]
        grown == registry \o ids
    IN
    /\ supPc = "report"
    /\ next_worker_id + add <= Len(WorkerOfId)
    /\ ready' = r
    /\ health_failed' = ~ok
    /\ target_workers' = t
    /\ next_worker_id' = next_worker_id + add
    /\ pc' = p
    /\ job_state' = [w \in Workers |-> IF w \in born THEN jobFile
                                                      ELSE job_state[w]]
    /\ IF t < current
       THEN /\ to_cancel' = current - t
            /\ registry' = registry
            /\ reaped' = 0
            /\ supPc' = "cancel"
       ELSE /\ to_cancel' = 0
            /\ registry' = Reap(grown, p)
            /\ reaped' = Len(grown) - Len(Reap(grown, p))
            /\ supPc' = "sleep"
    /\ UNCHANGED <<poolVars, shutdown, poolOf, lock, lease, sel, acqNow, err,
                   errAt, flips, jobs, hmVars, clsVars, ckVars, storeVars, job, jobFile, catalog, supTicks>>

\* Scale-down loop: task.cancel() on the next registered worker; await task.
\* A task already done is not affected by cancel().
SupCancel ==
    LET w == TaskOf(NextToCancel(registry)) IN
    /\ supPc = "cancel"
    /\ IF Done(w)
       THEN UNCHANGED <<poolVars, workerVars, hmVars, clsVars, ckVars, storeVars, jobVars>>
       ELSE CancelTask(w)
    /\ supPc' = "await"
    /\ UNCHANGED <<registry, next_worker_id, ready, target_workers, to_cancel,
                   reaped, health_failed, supTicks>>

\* `await task` returns: the worker is popped and to_cancel decremented;
\* the loop goes on to the next worker, or ends, and the reap loop and the
\* sleep follow.  If the task ended cancelled, `await task` raises
\* CancelledError, which `except Exception` lets through to the loop's
\* `except asyncio.CancelledError: break`.
SupAwaited ==
    LET k == NextToCancel(registry)
        rest == Pop(registry, k)
    IN
    /\ supPc = "await"
    /\ Done(TaskOf(k))
    /\ IF pc[TaskOf(k)] = "cancelled"
       THEN /\ supPc' = "stopping"
            /\ UNCHANGED <<registry, to_cancel, reaped>>
       ELSE /\ to_cancel' = to_cancel - 1
            /\ IF to_cancel - 1 > 0 /\ rest # <<>>
               THEN /\ registry' = rest
                    /\ reaped' = 0
                    /\ supPc' = "cancel"
               ELSE /\ registry' = Reap(rest, pc)
                    /\ reaped' = Len(rest) - Len(Reap(rest, pc))
                    /\ supPc' = "sleep"
    /\ UNCHANGED <<poolVars, workerVars, hmVars, clsVars, ckVars, storeVars, jobVars,
                   next_worker_id, ready, target_workers, health_failed,
                   supTicks>>

\* await asyncio.sleep(POLL_SECONDS) returns.
SupWake ==
    /\ supPc = "sleep"
    /\ supPc' = "loop"
    /\ UNCHANGED <<poolVars, workerVars, hmVars, clsVars, ckVars, storeVars, jobVars, registry,
                   next_worker_id, ready, target_workers, to_cancel, reaped,
                   health_failed, supTicks>>

\* `while not _shutdown` fails: on to cancelling the registered workers.
SupStop ==
    /\ supPc = "loop" /\ shutdown
    /\ supPc' = "stopping"
    /\ UNCHANGED <<poolVars, workerVars, hmVars, clsVars, ckVars, storeVars, jobVars, registry,
                   next_worker_id, ready, target_workers, to_cancel, reaped,
                   health_failed, supTicks>>

\* Shutdown loop: task.cancel() and `await task` for each registered worker
\* in turn, none popped.  A task that ended cancelled makes `await task`
\* raise CancelledError out of orchestrate.
SupShutdown ==
    LET left == SelectSeq(registry, LAMBDA k : pc[TaskOf(k)] # "exited") IN
    /\ supPc = "stopping"
    /\ IF left = <<>> \/ pc[TaskOf(Head(left))] = "cancelled"
       THEN /\ supPc' = "done"
            /\ UNCHANGED <<poolVars, workerVars, hmVars, clsVars, ckVars, storeVars, jobVars>>
       ELSE /\ supPc' = "stopping"
            /\ CancelTask(TaskOf(Head(left)))
    /\ UNCHANGED <<registry, next_worker_id, ready, target_workers, to_cancel,
                   reaped, health_failed, supTicks>>

SupStep ==
    \/ SupBegin
    \/ \E ok \in BOOLEAN : SupReport(ok)
    \/ SupCancel
    \/ SupAwaited
    \/ SupWake
    \/ SupStop
    \/ SupShutdown

\* --------------------------------------------------- account_pool_manager
\* The variant of _update_on_success that decrements without the CASE.
HmSuccessRow_Unguarded(r, t) ==
    [r EXCEPT !.status = "ready",
              !.cooldown_until = Max(0, Min(r.cooldown_until, t)),
              !.fail_count = r.fail_count - 1,
              !.last_error = NULL]

\* _update_on_success
HmSuccessRow(r, t) ==
    [r EXCEPT !.status = "ready",
              !.cooldown_until = Max(0, Min(r.cooldown_until, t)),
              !.fail_count = IF r.fail_count > 0 THEN r.fail_count - 1 ELSE 0,
              !.last_error = NULL]

\* _cooldown
HmCooldownRow(r, seconds, reason, t) ==
    [r EXCEPT !.status = "ready",
              !.cooldown_until = t + Max(1, seconds),
              !.fail_count = r.fail_count + 1,
              !.last_error = reason]

\* _quarantine
HmQuarantineRow(r, reason) ==
    [r EXCEPT !.status = "quarantine", !.last_error = reason]

\* _maintain_accounts: _fetch_accounts snapshot, then
\* to_check = rows with status 'ready' and cooldown_until <= now.
HmFetch ==
    /\ hmTodo = {}
    /\ cycles < MaxCycles
    /\ cycles' = cycles + 1
    /\ hmTodo' = Eligible(now)
    /\ hmFails' = [a \in Accounts |->
                      IF a \in Eligible(now) THEN rows[a].fail_count ELSE 0]
    /\ UNCHANGED <<poolVars, workerVars,
                   clsVars, ckVars, storeVars, jobVars, supVars>>

HmDone(a) ==
    /\ hmTodo' = hmTodo \ {a}
    /\ hmFails' = [hmFails EXCEPT ![a] = 0]
    /\ UNCHANGED cycles

\* _check_one: the probe succeeded.
HmProbeOk(a) ==
    /\ a \in hmTodo
    /\ rows' = UpdateRow(a, HmSuccessRow(rows[a], now))
    /\ HmDone(a)
    /\ UNCHANGED <<now, ticks, workerVars,
                   clsVars, ckVars, storeVars, jobVars, supVars>>

\* _check_one: reason == "rate-limit".
HmProbeRateLimit(a) ==
    /\ a \in hmTodo
    /\ rows' = UpdateRow(a, HmCooldownRow(rows[a], COOLDOWN_RATE, "rate-limit", now))
    /\ HmDone(a)
    /\ UNCHANGED <<now, ticks, workerVars,
                   clsVars, ckVars, storeVars, jobVars, supVars>>

\* _check_one: reason == "auth".
HmProbeAuth(a) ==
    /\ a \in hmTodo
    /\ rows' = UpdateRow(a, HmQuarantineRow(rows[a], "auth"))
    /\ HmDone(a)
    /\ UNCHANGED <<now, ticks, workerVars,
                   clsVars, ckVars, storeVars, jobVars, supVars>>

\* _check_one: network/transient; fails = snapshot fail_count + 1.
HmProbeNetwork(a) ==
    /\ a \in hmTodo
    /\ IF hmFails[a] + 1 >= QUARANTINE_FAILS
       THEN rows' = UpdateRow(a, HmQuarantineRow(rows[a], "repeated-failures"))
       ELSE rows' = UpdateRow(a, HmCooldownRow(rows[a], COOLDOWN_BAD, "network", now))
    /\ HmDone(a)
    /\ UNCHANGED <<now, ticks, workerVars,
                   clsVars, ckVars, storeVars, jobVars, supVars>>

\* ------------------------------------------------------- error classification
\* An exception message str(e) is a sequence of characters.  The texts below
\* are the ones the two classifiers look for, in the spellings they and
\* Reddit's client use, and one unrelated text.
\* "Too Many Requests"
MsgTooManyRequests ==
    <<"T", "o", "o", " ", "M", "a", "n", "y", " ", "R", "e", "q", "u",
    "e", "s", "t", "s">>

\* "too many requests"
MsgTooManyRequestsLower ==
    <<"t", "o", "o", " ", "m", "a", "n", "y", " ", "r", "e", "q", "u",
    "e", "s", "t", "s">>

\* "RATELIMIT"
MsgRATELIMIT ==
    <<"R", "A", "T", "E", "L", "I", "M", "I", "T">>

\* "ratelimit"
MsgRatelimitLower ==
    <<"r", "a", "t", "e", "l", "i", "m", "i", "t">>

\* "429"
Msg429 ==
    <<"4", "2", "9">>

\* "401"
Msg401 ==
    <<"4", "0", "1">>

\* "403"
Msg403 ==
    <<"4", "0", "3">>

\* "invalid_grant"
MsgInvalidGrant ==
    <<"i", "n", "v", "a", "l", "i", "d", "_", "g", "r", "a", "n", "t">>

\* "Forbidden"
MsgForbidden ==
    <<"F", "o", "r", "b", "i", "d", "d", "e", "n">>

\* "forbidden"
MsgForbiddenLower ==
    <<"f", "o", "r", "b", "i", "d", "d", "e", "n">>

\* "Unauthorized"
MsgUnauthorized ==
    <<"U", "n", "a", "u", "t", "h", "o", "r", "i", "z", "e", "d">>

\* "unauthorized"
MsgUnauthorizedLower ==
    <<"u", "n", "a", "u", "t", "h", "o", "r", "i", "z", "e", "d">>

\* "timeout"
MsgTimeout ==
    <<"t", "i", "m", "e", "o", "u", "t">>

Space == <<" ">>

Fragments ==
    {MsgTooManyRequests, MsgTooManyRequestsLower, MsgRATELIMIT, MsgRatelimitLower,
     Msg429, Msg401, Msg403, MsgInvalidGrant,
     MsgForbidden, MsgForbiddenLower, MsgUnauthorized, MsgUnauthorizedLower,
     MsgTimeout}

\* Messages classified: one text, or two separated by a space.
Messages ==
    Fragments \cup { f \o Space \o g : f \in Fragments, g \in Fragments }

\* str.lower() on one character
Lower(c) ==
    CASE c = "A" -> "a"
      [] c = "E" -> "e"
      [] c = "F" -> "f"
      [] c = "I" -> "i"
      [] c = "L" -> "l"
      [] c = "M" -> "m"
      [] c = "R" -> "r"
      [] c = "T" -> "t"
      [] c = "U" -> "u"
      [] OTHER -> c

\* msg.lower()
LowerStr(m) == [i \in 1..Len(m) |-> Lower(m[i])]

\* Python's `p in m` on strings
Contains(m, p) ==
    \E i \in 0..(Len(m) - Len(p)) : \A k \in 1..Len(p) : m[i + k] = p[k]

\* _looks_rate_limited
looks_rate_limited(m) ==
    LET s == LowerStr(m) IN
    \/ Contains(s, MsgTooManyRequestsLower)
    \/ Contains(s, MsgRatelimitLower)
    \/ Contains(s, Msg429)

\* _looks_auth_ban
looks_auth_ban(m) ==
    LET s == LowerStr(m) IN
    \/ Contains(s, MsgUnauthorizedLower)
    \/ Contains(s, MsgForbiddenLower)
    \/ Contains(s, Msg403)
    \/ Contains(s, Msg401)
    \/ Contains(s, MsgInvalidGrant)

\* worker_task, except Exception as e: the branch taken for msg = str(e)
WorkerClassOf(m) ==
    IF looks_rate_limited(m) THEN "rate-limit"
    ELSE IF looks_auth_ban(m) THEN "auth"
    ELSE "other"

\* _health_probe, except Exception as e: the reason returned
HmReasonOf(m) ==
    IF \/ Contains(m, MsgTooManyRequests)
       \/ Contains(m, MsgRATELIMIT)
       \/ Contains(m, Msg429)
    THEN "rate-limit"
    ELSE IF \/ Contains(m, Msg401)
            \/ Contains(m, Msg403)
            \/ Contains(m, MsgInvalidGrant)
            \/ Contains(m, MsgForbidden)
            \/ Contains(m, MsgUnauthorized)
    THEN "auth"
    ELSE "network"

\* The worker's handler classifies the message of the exception it caught.
WorkerClassify ==
    /\ msg # <<>>
    /\ workerClass = "none"
    /\ workerClass' = WorkerClassOf(msg)
    /\ UNCHANGED <<poolVars, workerVars, hmVars, msg, hmClass, jobVars, supVars,
                   ckVars, storeVars>>

\* The health probe classifies the message of the exception it caught.
HmClassify ==
    /\ msg # <<>>
    /\ hmClass = "none"
    /\ hmClass' = HmReasonOf(msg)
    /\ UNCHANGED <<poolVars, workerVars, hmVars, msg, workerClass, jobVars,
                   supVars, ckVars, storeVars>>

\* ------------------------------------------------------------ rate limiter
\* ensure_bucket's INSERT: tokens = capacity, updated_at = now
EnsureRow(capacity, refill_rate, t) ==
    [capacity |-> capacity, tokens |-> capacity, refill_rate |-> refill_rate,
     updated_at |-> t]

\* Mutant of EnsureWrite: INSERT OR REPLACE in place of the guarded INSERT.
EnsureWrite_Replace(row, capacity, refill_rate, t) ==
    EnsureRow(capacity, refill_rate, t)

\* _ensure's `if not row: INSERT`; the plain INSERT on a row that appeared
\* since the SELECT raises IntegrityError and changes nothing.
EnsureWrite(row, capacity, refill_rate, t) ==
    IF row = NoBucket THEN EnsureRow(capacity, refill_rate, t) ELSE row

\* _op: `capacity, current, refill, updated_at = 5.0, 5.0, 5.0, now`
DefaultBucket(t) ==
    [capacity |-> DEFAULT_CAPACITY, tokens |-> DEFAULT_TOKENS,
     refill_rate |-> DEFAULT_REFILL, updated_at |-> t]

\* Mutant of Elapsed: the difference as it is.
Elapsed_Unclamped(t, updated_at) == t - updated_at

\* elapsed = max(0.0, now - float(updated_at))
Elapsed(t, updated_at) == Max(0, t - updated_at)

\* Mutant of Refill: the refill without min(capacity, ...).
Refill_Uncapped(row, t) ==
    row.tokens + row.refill_rate * Elapsed(t, row.updated_at)

\* current = min(float(capacity), float(current) + float(refill) * elapsed)
Refill(row, t) ==
    Min(row.capacity,
        row.tokens + row.refill_rate * Elapsed(t, row.updated_at))

\* ensure_bucket: now = time.time(), and the SELECT of _ensure.  A row is
\* there: the call returns.  None is: on to the INSERT.
EnsureSelect(k, args) ==
    /\ rlPc[k] = "idle"
    /\ calls' = calls + 1
    /\ IF bucket # NoBucket
       THEN UNCHANGED <<rlPc, call>>
       ELSE /\ rlPc' = [rlPc EXCEPT ![k] = "ens_insert"]
            /\ call' = [call EXCEPT ![k] =
                           [op |-> "ensure", capacity |-> args.capacity,
                            refill_rate |-> args.refill_rate, now |-> rlNow]]
    /\ UNCHANGED <<coreVars, cpVars, libVars, limiterOf, rlNow, rlTicks, bucket, rlLock, att, wake>>

\* _ensure: the INSERT and commit; it raises if the row exists by now.
EnsureInsert(k) ==
    /\ rlPc[k] = "ens_insert"
    /\ bucket' = EnsureWrite(bucket, call[k].capacity, call[k].refill_rate,
                             call[k].now)
    /\ rlPc' = [rlPc EXCEPT ![k] = "idle"]
    /\ call' = [call EXCEPT ![k] = NoCall]
    /\ UNCHANGED <<coreVars, cpVars, libVars, limiterOf, rlNow, rlTicks, rlLock, att, wake, calls>>

\* acquire(name, tokens, timeout): the deadline is computed.
AcquireCall(k, tokens, timeout) ==
    /\ rlPc[k] = "idle"
    /\ calls' = calls + 1
    /\ call' = [call EXCEPT ![k] =
                   [op |-> "acquire", tokens |-> tokens,
                    deadline |-> IF timeout = NoDeadline THEN NoDeadline
                                 ELSE rlNow + timeout]]
    /\ rlPc' = [rlPc EXCEPT ![k] = "try"]
    /\ UNCHANGED <<coreVars, cpVars, libVars, limiterOf, rlNow, rlTicks, bucket, rlLock, att, wake>>

\* _try_acquire_once: the lock is taken and now = time.time(); _op is
\* handed to a thread.
TryBegin(k) ==
    /\ rlPc[k] = "try"
    /\ rlLock[limiterOf[k]] = Free
    /\ rlLock' = [rlLock EXCEPT ![limiterOf[k]] = k]
    /\ att' = [att EXCEPT ![k] = [now |-> rlNow, row |-> NoBucket]]
    /\ rlPc' = [rlPc EXCEPT ![k] = "select"]
    /\ UNCHANGED <<coreVars, cpVars, libVars, limiterOf, rlNow, rlTicks, bucket, call, wake, calls>>

\* _op: the SELECT of the bucket's row.
TrySelect(k) ==
    /\ rlPc[k] = "select"
    /\ att' = [att EXCEPT ![k].row = bucket]
    /\ rlPc' = [rlPc EXCEPT ![k] = "write"]
    /\ UNCHANGED <<coreVars, cpVars, libVars, limiterOf, rlNow, rlTicks, bucket, rlLock, call, wake, calls>>

\* _op after its SELECT: INSERT OR REPLACE of the default row if none was
\* read, the refill, the deduction if current >= tokens, the UPDATE of
\* tokens and updated_at, and the commit; the lock is left.  True returns
\* from acquire; False goes on to the deadline test.
TryWrite(k) ==
    LET t == att[k].now
        base == IF att[k].row = NoBucket THEN DefaultBucket(t) ELSE att[k].row
        current == Refill(base, t)
        ok == current >= call[k].tokens
        stored == IF ok THEN current - call[k].tokens ELSE current
        target == IF att[k].row = NoBucket THEN DefaultBucket(t) ELSE bucket
    IN
    /\ rlPc[k] = "write"
    /\ bucket' = [target EXCEPT !.tokens = stored, !.updated_at = t]
    /\ rlLock' = [rlLock EXCEPT ![limiterOf[k]] = Free]
    /\ att' = [att EXCEPT ![k] = NoAttempt]
    /\ IF ok
       THEN /\ rlPc' = [rlPc EXCEPT ![k] = "idle"]
            /\ call' = [call EXCEPT ![k] = NoCall]
       ELSE /\ rlPc' = [rlPc EXCEPT ![k] = "check"]
            /\ UNCHANGED call
    /\ UNCHANGED <<coreVars, cpVars, libVars, limiterOf, rlNow, rlTicks, wake, calls>>

\* acquire: `if deadline is not None and time.time() >= deadline: return
\* False`, else await asyncio.sleep(0.1).
AcquireCheck(k) ==
    /\ rlPc[k] = "check"
    /\ IF call[k].deadline # NoDeadline /\ rlNow >= call[k].deadline
       THEN /\ rlPc' = [rlPc EXCEPT ![k] = "idle"]
            /\ call' = [call EXCEPT ![k] = NoCall]
            /\ UNCHANGED wake
       ELSE /\ rlPc' = [rlPc EXCEPT ![k] = "sleep"]
            /\ wake' = [wake EXCEPT ![k] = rlNow + POLL_SLEEP]
            /\ UNCHANGED call
    /\ UNCHANGED <<coreVars, cpVars, libVars, limiterOf, rlNow, rlTicks, bucket, rlLock, att, calls>>

\* asyncio.sleep(0.1) returns on time: the clock is at its due time.
SleepElapse(k) ==
    /\ rlPc[k] = "sleep"
    /\ rlNow < wake[k]
    /\ wake[k] <= MaxRlNow
    /\ rlNow' = wake[k]
    /\ UNCHANGED <<coreVars, cpVars, libVars, limiterOf, rlTicks, bucket, rlLock, rlPc, call, att, wake,
                   calls>>

\* The sleep is over, on time or late: the next _try_acquire_once.
AcquireRetry(k) ==
    /\ rlPc[k] = "sleep"
    /\ rlNow >= wake[k]
    /\ rlPc' = [rlPc EXCEPT ![k] = "try"]
    /\ wake' = [wake EXCEPT ![k] = 0]
    /\ UNCHANGED <<coreVars, cpVars, libVars, limiterOf, rlNow, rlTicks, bucket, rlLock, call, att, calls>>

\* time.time() advances beside the callers (a thread or the loop is late).
RlTick(d) ==
    /\ rlTicks < MaxRlTicks
    /\ rlTicks' = rlTicks + 1
    /\ rlNow' = rlNow + d
    /\ UNCHANGED <<coreVars, cpVars, libVars, limiterOf, bucket, rlLock, rlPc, call, att, wake, calls,
                   testVars>>

\* The steps inside a call of caller k.
CallStep(k) ==
    \/ EnsureInsert(k)
    \/ TryBegin(k)
    \/ TrySelect(k)
    \/ TryWrite(k)
    \/ AcquireCheck(k)
    \/ SleepElapse(k)
    \/ AcquireRetry(k)

\* Caller k makes a call, or goes on with the one it is in.
LimiterStep(k) ==
    \/ /\ calls < MaxCalls
       /\ \/ \E args \in EnsureArgs : EnsureSelect(k, args)
          \/ \E tokens \in Requests, timeout \in Timeouts :
                AcquireCall(k, tokens, timeout)
    \/ CallStep(k)

\* test_rate_limiter_bucket: await rl.ensure_bucket("test", 2.0, 1.0)
TestEnsure ==
    /\ testPc = "ensure"
    /\ EnsureSelect(TestCaller, TestBucket)
    /\ testPc' = IF bucket # NoBucket THEN "ready" ELSE "ensuring"
    /\ UNCHANGED <<testIssued, testOk>>

\* ok1, ok2, ok3 = await rl.acquire("test", tokens=1.0, timeout=0.1): the
\* call is made.
TestAcquire ==
    /\ testPc = "ready"
    /\ AcquireCall(TestCaller, TestTokens, TestTimeout)
    /\ testIssued' = Append(testIssued, rlNow)
    /\ testPc' = "waiting"
    /\ UNCHANGED testOk

\* The test's call goes on; when it returns, ensure_bucket's return lets
\* the test go on and acquire's value is bound to ok1, ok2 or ok3 (True
\* from _try_acquire_once, False from the deadline test).  `assert ok1 and
\* ok2` fails the test; after ok3 the test is done.
TestCall ==
    LET back == rlPc'[TestCaller] = "idle"
        oks == Append(testOk, rlPc[TestCaller] = "write")
    IN
    /\ testPc \in {"ensuring", "waiting"}
    /\ CallStep(TestCaller)
    /\ IF ~back
       THEN UNCHANGED <<testPc, testOk>>
       ELSE IF testPc = "ensuring"
       THEN testPc' = "ready" /\ UNCHANGED testOk
       ELSE /\ testOk' = oks
            /\ testPc' = IF Len(oks) = 2 /\ ~(oks[1] /\ oks[2]) THEN "failed"
                          ELSE IF Len(oks) = 3 THEN "done"
                          ELSE "ready"
    /\ UNCHANGED testIssued

\* ------------------------------------------------------------ checkpointer
\* json.dumps of a value: a str in quotes, an int in digits, None as null.
Encode(v) ==
    IF v.py = "str" THEN Str(v.val)
    ELSE IF v.py = "int" THEN Num(v.val)
    ELSE Null

\* json.loads of a value literal.
Decode(tok) ==
    IF tok.t = "str" THEN PyStr(tok.s)
    ELSE IF tok.t = "num" THEN PyInt(tok.n)
    ELSE PyNone

RECURSIVE DumpItems(_)
\* "key": value pairs in the dict's order, separated by commas.
DumpItems(items) ==
    IF items = <<>> THEN <<>>
    ELSE LET one == <<Str(Head(items).k), Colon, Encode(Head(items).v)>>
         IN IF Len(items) = 1 THEN one
            ELSE one \o <<Comma>> \o DumpItems(Tail(items))

\* payload = json.dumps(checkpoint)
Dumps(d) == <<LBrace>> \o DumpItems(d.items) \o <<RBrace>>

\* dict[key] = value while parsing: a repeated key keeps its place and
\* takes the later value.
SetItem(items, it) ==
    IF \E i \in 1..Len(items) : items[i].k = it.k
    THEN [i \in 1..Len(items) |-> IF items[i].k = it.k THEN it ELSE items[i]]
    ELSE Append(items, it)

\* json.loads raising.
Malformed == [ok |-> FALSE, items |-> <<>>]

RECURSIVE ParseItems(_, _)
\* The pairs between the braces, left to right, onto the items parsed so
\* far.
ParseItems(toks, acc) ==
    IF \/ Len(toks) < 3
       \/ toks[1].t # "str"
       \/ toks[2].t # ":"
       \/ toks[3].t \notin {"str", "num", "null"}
    THEN Malformed
    ELSE LET items == SetItem(acc, Item(toks[1].s, Decode(toks[3])))
         IN IF Len(toks) = 3 THEN [ok |-> TRUE, items |-> items]
            ELSE IF Len(toks) < 5 \/ toks[4].t # ","
            THEN Malformed
            ELSE ParseItems(SubSeq(toks, 5, Len(toks)), items)

\* json.loads(raw) of an object.
Loads(raw) ==
    IF Len(raw) < 2 \/ raw[1].t # "{" \/ raw[Len(raw)].t # "}"
    THEN Malformed
    ELSE IF Len(raw) = 2 THEN [ok |-> TRUE, items |-> <<>>]
    ELSE ParseItems(SubSeq(raw, 2, Len(raw) - 1), <<>>)

\* Mutant of SaveRow: INSERT OR IGNORE, the first payload of a job_id stays.
SaveRow_KeepFirst(table, j, text) ==
    IF table[j] = NoPayload THEN [table EXCEPT ![j] = text] ELSE table

\* _upsert: INSERT ... ON CONFLICT(job_id) DO UPDATE SET payload, updated_at
SaveRow(table, j, text) == [table EXCEPT ![j] = text]

\* load_progress after _load: `if not raw: return None`, json.loads(raw),
\* None if it raises.
LoadResult(raw) ==
    IF raw = NoPayload \/ raw = <<>> THEN NoDict
    ELSE IF Loads(raw).ok THEN Dict(Loads(raw).items)
    ELSE NoDict

\* await cp.save_progress(job_id, checkpoint)
save_progress(job_id, checkpoint) ==
    /\ cpTable' = SaveRow(cpTable, job_id, Dumps(checkpoint))
    /\ cpSaved' = [cpSaved EXCEPT ![job_id] = checkpoint]
    /\ UNCHANGED <<coreVars, rateVars, testVars, libVars, cpLoaded>>

\* cp.load_progress(job_id) is called.
load_call(job_id) ==
    /\ cpLoaded.value # Pending
    /\ cpLoaded' = [job |-> job_id, value |-> Pending]
    /\ UNCHANGED <<coreVars, rateVars, testVars, libVars, cpTable, cpSaved>>

\* load_progress runs _load and returns.
load_progress ==
    /\ cpLoaded.value = Pending
    /\ cpLoaded' = [cpLoaded EXCEPT !.value = LoadResult(cpTable[cpLoaded.job])]
    /\ UNCHANGED <<coreVars, rateVars, testVars, libVars, cpTable, cpSaved>>

\* ------------------------------------------------------------ specification
\* Steps of the worker loop and of the pool calls it makes.
WorkerStep(w) ==
    \/ WorkerIdle(w)
    \/ WorkerPickJob(w)
    \/ WorkerWake(w)
    \/ AcquireSelect(w)
    \/ AcquireMiss(w)
    \/ RetrySelect(w)
    \/ RetryFail(w)
    \/ \E built \in BOOLEAN : Mark(w, built)
    \/ ScrapeOk(w)
    \/ ScrapeRateLimited(w)
    \/ ScrapeAuthBan(w)
    \/ ScrapeOtherError(w)
    \/ ReleaseFail(w)

\* Steps of the health manager process.
HmStep ==
    \/ HmFetch
    \/ \E a \in Accounts :
          \/ HmProbeOk(a)
          \/ HmProbeRateLimit(a)
          \/ HmProbeAuth(a)
          \/ HmProbeNetwork(a)

\* Clock and seeding.
EnvStep ==
    \/ \E d \in TickSteps : Tick(d)
    \/ \E a \in Seeded : AddAccount(a, SeedCred)

\* The orchestrator's workers on one pool, beside the health manager.
Next ==
    \/ EnvStep
    \/ \E w \in Workers : WorkerStep(w)
    \/ HmStep

Spec == Init /\ [][Next]_vars

\* One worker, seeding, the clock and the health manager on one store.
NextRows ==
    \/ EnvStep
    \/ WorkerStep("w1")
    \/ HmStep

SpecRows == Init /\ [][NextRows]_vars

\* Two processes, each with its own AccountPool, on one accounts.db.
InitPools == InitWith(SeparatePools)

NextPools ==
    \/ EnvStep
    \/ \E w \in Workers : WorkerStep(w)

SpecPools == InitPools /\ [][NextPools]_vars

\* seed_reddit_pool run on the seed file as first written, and run again,
\* the file edited or not, while the workers use the accounts; the clock
\* moves only with acquire's backoff.
NextSeed ==
    \/ \E a \in Seeded, c \in Creds :
          (Present(a) \/ c = SeedCred) /\ AddAccount(a, c)
    \/ \E w \in Workers : WorkerStep(w) \/ BackoffElapse(w)

SpecSeed == Init /\ [][NextSeed]_vars

\* The worker checkpoints table is created or dropped beside the running
\* workers, or accounts.db is locked by another writer and freed.
StoreFlip ==
    /\ ckAvail' = ~ckAvail
    /\ UNCHANGED <<poolVars, workerVars, hmVars, clsVars, jobVars, supVars,
                   ckpt, started, storeVars>>

\* The workers and their checkpoint writes; the clock moves only with
\* acquire's backoff.
NextCkpt ==
    \/ StoreFlip
    \/ \E a \in Seeded : AddAccount(a, SeedCred)
    \/ \E w \in Workers : WorkerStep(w) \/ BackoffElapse(w)

SpecCkpt == Init /\ [][NextCkpt]_vars

\* The callers of one limiter, and the clock.
NextRate ==
    \/ \E d \in RlSteps : RlTick(d)
    \/ \E k \in Callers : LimiterStep(k) /\ UNCHANGED testVars

SpecRate == Init /\ [][NextRate]_vars

\* ---- JobQueue (job_queue.py) ----
\* Every method holds self._lock from its load to its save, so each call on
\* one JobQueue is one step.

Remove(q, idx) == [n \in 1..(Len(q) - 1) |-> IF n < idx THEN q[n] ELSE q[n + 1]]
InflightIds == { i \in JobIds : jqInflight[i] # NotInflight }
size == <<Len(jqQueue), Cardinality(InflightIds)>>

\* The indexes _weighted_pick_index may return: each score is
\* weight * max(1, age / 60) > 0, and r is uniform over [0, total].
weighted_pick_index(q) == 1..Len(q)

Called(name, i, b, r) ==
    /\ jqCount.calls < MaxQueueCalls
    /\ jqLast' = [op |-> name, id |-> i, backoff |-> b, ret |-> r]

enqueue(j) ==
    /\ Called("enqueue", j.id, 0, "none")
    /\ jqQueue' = Append(jqQueue, [j EXCEPT !.enqueued_at = jqNow])
    /\ jqCount' = [jqCount EXCEPT !.calls = @ + 1, !.enqueue = @ + 1]
    /\ UNCHANGED <<jqInflight, jqNow>>

dequeue ==
    IF jqQueue = <<>>
    THEN /\ Called("dequeue", "none", 0, "none")
         /\ jqCount' = [jqCount EXCEPT !.calls = @ + 1]
         /\ UNCHANGED <<jqQueue, jqInflight, jqNow>>
    ELSE \E idx \in weighted_pick_index(jqQueue) :
            /\ Called("dequeue", jqQueue[idx].id, 0, "job")
            /\ jqQueue' = Remove(jqQueue, idx)
            /\ jqInflight' = [jqInflight EXCEPT ![jqQueue[idx].id] = jqQueue[idx]]
            /\ jqCount' = [jqCount EXCEPT !.calls = @ + 1]
            /\ UNCHANGED jqNow

ack(i) ==
    IF i \in InflightIds
    THEN /\ Called("ack", i, 0, "true")
         /\ jqInflight' = [jqInflight EXCEPT ![i] = NotInflight]
         /\ jqCount' = [jqCount EXCEPT !.calls = @ + 1, !.ack = @ + 1]
         /\ UNCHANGED <<jqQueue, jqNow>>
    ELSE /\ Called("ack", i, 0, "false")
         /\ jqCount' = [jqCount EXCEPT !.calls = @ + 1]
         /\ UNCHANGED <<jqQueue, jqInflight, jqNow>>

nack(i, requeue, backoff_seconds) ==
    IF i \notin InflightIds
    THEN /\ Called("nack", i, backoff_seconds, "false")
         /\ jqCount' = [jqCount EXCEPT !.calls = @ + 1]
         /\ UNCHANGED <<jqQueue, jqInflight, jqNow>>
    ELSE /\ Called(IF requeue THEN "nack_requeue" ELSE "nack_drop", i, backoff_seconds, "true")
         /\ jqInflight' = [jqInflight EXCEPT ![i] = NotInflight]
         /\ IF requeue
            THEN /\ jqQueue' = Append(jqQueue,
                        [jqInflight[i] EXCEPT
                            !.attempts = @ + 1,
                            !.enqueued_at = jqNow + Max(0, backoff_seconds)])
                 /\ jqCount' = [jqCount EXCEPT !.calls = @ + 1]
            ELSE /\ jqQueue' = jqQueue
                 /\ jqCount' = [jqCount EXCEPT !.calls = @ + 1, !.drop = @ + 1]
         /\ UNCHANGED jqNow

\* time.time() moves on between two calls.
JqTick ==
    /\ jqNow < MaxJqNow
    /\ jqNow' = jqNow + 1
    /\ UNCHANGED <<jqQueue, jqInflight, jqCount, jqLast>>

QueueStep ==
    \/ \E i \in JobIds, w \in JobWeights : enqueue(Job(i, w))
    \/ dequeue
    \/ \E i \in JobIds : ack(i)
    \/ \E i \in JobIds, r \in BOOLEAN, b \in Backoffs : nack(i, r, b)
    \/ JqTick

NextQueue == QueueStep /\ UNCHANGED <<coreVars, rateVars, testVars, cpVars, planVars>>

SpecQueue == Init /\ [][NextQueue]_vars

\* ---- RedditScrapeOptions (options.py) and build_plan (planner.py) ----

\* Truth value of an Optional[List] (`if x`, `x or ...`, `not x`).
Truthy(x) == ~x.none /\ x.list # <<>>
In(v, l) == \E n \in DOMAIN l : l[n] = v

\* The field validators; each returns whether the value passes.
positive_limit(v) == ~(v <= 0)
non_empty_listing_types(v) == ~(v = <<>>)

\* The variant that takes only an absent search_queries for missing.
search_requires_queries_NoneOnly(v, values_listing_types) ==
    ~(In("search", values_listing_types) /\ v.none)

\* values holds listing_types only if that field passed its validator.
search_requires_queries(v, values_listing_types) ==
    ~(In("search", values_listing_types) /\ (~Truthy(v) \/ Len(v.list) = 0))

\* RedditScrapeOptions(**kw): whether construction succeeds. Fields are
\* validated in declaration order: listing_types, search_queries,
\* per_listing_limit.
Validates(kw) ==
    /\ non_empty_listing_types(kw.listing_types)
    /\ search_requires_queries(kw.search_queries,
           IF non_empty_listing_types(kw.listing_types)
           THEN kw.listing_types ELSE <<>>)
    /\ positive_limit(kw.per_listing_limit)

SubmissionsTarget(listing, tf, limit) ==
    [type |-> "SubmissionsTarget", subreddit |-> "all", listing |-> listing,
     time_filter |-> tf, sort |-> None, limit |-> limit]

SearchTarget(q, sort, tf, limit) ==
    [type |-> "SearchTarget", subreddit |-> "all", query |-> q, sort |-> sort,
     time_filter |-> tf, limit |-> limit]

UserTimelineTarget(username, surface, limit) ==
    [type |-> "UserTimelineTarget", username |-> username,
     surface |-> surface, sort |-> "new", limit |-> limit]

\* options.time_filters or [None]
FiltersOrNone(opts) ==
    IF Truthy(opts.time_filters) THEN opts.time_filters.list ELSE <<None>>

\* The variant that gives TOP and CONTROVERSIAL one target without filter.
ListingTargets_NoFilter(opts, listing) ==
    IF listing = "search" THEN <<>>
    ELSE <<SubmissionsTarget(listing, None, opts.per_listing_limit)>>

\* The targets one entry of listing_types appends.
ListingTargets(opts, listing) ==
    IF listing = "search" THEN <<>>
    ELSE IF listing \in {"top", "controversial"}
    THEN [n \in DOMAIN FiltersOrNone(opts) |->
             SubmissionsTarget(listing, FiltersOrNone(opts)[n],
                               opts.per_listing_limit)]
    ELSE <<SubmissionsTarget(listing, None, opts.per_listing_limit)>>

RECURSIVE AllListingTargets(_, _)
AllListingTargets(opts, n) ==
    IF n = 0 THEN <<>>
    ELSE AllListingTargets(opts, n - 1)
             \o ListingTargets(opts, opts.listing_types[n])

\* The targets of one query, one per time filter.
QueryTargets(opts, q) ==
    [n \in DOMAIN FiltersOrNone(opts) |->
        SearchTarget(q, IF opts.search_sort = None THEN "new" ELSE opts.search_sort,
                     FiltersOrNone(opts)[n], opts.per_listing_limit)]

RECURSIVE AllQueryTargets(_, _)
AllQueryTargets(opts, n) ==
    IF n = 0 THEN <<>>
    ELSE AllQueryTargets(opts, n - 1)
             \o QueryTargets(opts, opts.search_queries.list[n])

SearchTargets(opts) ==
    IF In("search", opts.listing_types) /\ Truthy(opts.search_queries)
    THEN AllQueryTargets(opts, Len(opts.search_queries.list))
    ELSE <<>>

RECURSIVE TimelineTargets(_, _)
TimelineTargets(opts, n) ==
    IF n = 0 THEN <<>>
    ELSE TimelineTargets(opts, n - 1)
             \o <<UserTimelineTarget(opts.user_timelines.list[n], "submissions",
                                     opts.per_listing_limit),
                  UserTimelineTarget(opts.user_timelines.list[n], "comments",
                                     opts.per_listing_limit)>>

\* build_plan(subreddit, options, date_range).computed_targets
build_plan(opts) ==
    AllListingTargets(opts, Len(opts.listing_types))
        \o SearchTargets(opts)
        \o (IF Truthy(opts.user_timelines)
            THEN TimelineTargets(opts, Len(opts.user_timelines.list))
            ELSE <<>>)

\* expand_to_targets(plan): a copy of the list.
expand_to_targets(targets) == [n \in DOMAIN targets |-> targets[n]]

\* opts = RedditScrapeOptions(**kwargs)
Construct ==
    /\ planPc = "new"
    /\ planPc' = IF Validates(kwargs) THEN "constructed" ELSE "raised"
    /\ UNCHANGED <<kwargs, computed_targets>>

\* plan = build_plan("all", opts, date_range)
BuildPlan ==
    /\ planPc = "constructed"
    /\ planPc' = "planned"
    /\ computed_targets' = build_plan(kwargs)
    /\ UNCHANGED kwargs

\* The arguments callers construct options from.
ListingChoices == {"new", "top", "controversial", "search"}
MaxListings == 2
ListingInputs ==
    UNION { [1..n -> ListingChoices] : n \in 0..MaxListings }
        \cup {<<"new", "hot", "top">>, <<"new", "top", "search">>}
FilterInputs == {NoList, Some(<<>>), Some(<<"day">>), Some(<<"day", "week">>)}
QueryInputs == {NoList, Some(<<>>), Some(<<"a">>), Some(<<"a", "b">>)}
TimelineInputs == {NoList, Some(<<"u">>)}
LimitInputs == {0, 50, 100}

PlanInputs ==
    [listing_types : ListingInputs,
     time_filters : FilterInputs,
     search_queries : QueryInputs,
     search_sort : {"new"},
     user_timelines : TimelineInputs,
     per_listing_limit : LimitInputs]

InitPlan ==
    /\ InitTable(SharedPool)
    /\ InitNoMessage
    /\ InitJobs
    /\ InitNoSupervisor
    /\ InitNoCheckpoints
    /\ InitLimiter
    /\ InitNoTest
    /\ InitCheckpointer
    /\ InitQueue
    /\ \E kw \in PlanInputs : InitPlanWith(kw)

NextPlan ==
    (Construct \/ BuildPlan)
        /\ UNCHANGED <<coreVars, rateVars, testVars, cpVars, queueVars>>

SpecPlan == InitPlan /\ [][NextPlan]_vars

\* Two limiters on one rate_limits.db, one caller each; the bucket was
\* ensured with capacity 1.0 and refill_rate 0.0 and holds its one token.
OneTokenBucket == EnsureRow(20, 0, 0)
OwnLimiter == [k \in Callers |-> IF k = "k1" THEN "l1" ELSE "l2"]

InitShared ==
    /\ InitTable(SharedPool)
    /\ InitNoMessage
    /\ InitJobs
    /\ InitNoSupervisor
    /\ InitNoCheckpoints
    /\ InitLimiterWith(OneTokenBucket, OwnLimiter)
    /\ InitNoTest
    /\ InitCheckpointer
    /\ InitLibs

\* acquire calls of one token through either limiter.
AcquireStep(k) ==
    \/ /\ calls < MaxCalls
       /\ \E timeout \in Timeouts : AcquireCall(k, 20, timeout)
    \/ TryBegin(k)
    \/ TrySelect(k)
    \/ TryWrite(k)
    \/ AcquireCheck(k)
    \/ SleepElapse(k)
    \/ AcquireRetry(k)

NextShared ==
    \/ \E d \in RlSteps : RlTick(d)
    \/ \E k \in Callers : AcquireStep(k) /\ UNCHANGED testVars

SpecShared == InitShared /\ [][NextShared]_vars

\* The health manager alone on a store whose seeded accounts have failed
\* any number of times up to the threshold and have cooled down since.
FailedRow(n) == [NewRow EXCEPT !.fail_count = n]

InitHealth ==
    /\ \E f \in [Seeded -> 0..QUARANTINE_FAILS] :
          InitTableWith([a \in Accounts |->
                            IF a \in Seeded THEN FailedRow(f[a]) ELSE NoRow],
                        SharedPool)
    /\ InitNoMessage
    /\ InitJobs
    /\ InitNoSupervisor
    /\ InitNoCheckpoints
    /\ InitStores

NextHealth ==
    \/ \E d \in TickSteps : Tick(d)
    \/ HmStep

SpecHealth == InitHealth /\ [][NextHealth]_vars

\* Saves and loads on one Checkpointer, in any order.
NextCheckpointer ==
    \/ \E j \in CpJobs, x \in CpPayloads : save_progress(j, x)
    \/ \E j \in CpJobs : load_call(j)
    \/ load_progress

SpecCheckpointer == Init /\ [][NextCheckpointer]_vars

\* test_rate_limiter_bucket on a limiter of its own, on an empty store.
InitTest ==
    /\ InitTable(SharedPool)
    /\ InitNoMessage
    /\ InitJobs
    /\ InitNoSupervisor
    /\ InitNoCheckpoints
    /\ InitLimiter
    /\ InitCheckpointer
    /\ InitLibs
    /\ testPc = "ensure"
    /\ testIssued = <<>>
    /\ testOk = <<>>

\* The test's task and the clock, which advances by any of these amounts
\* at any point of the test: 50 ms, 500 ms, 3 s.
TestSteps == {1, 10, 60}

NextTest ==
    \/ TestEnsure
    \/ TestAcquire
    \/ TestCall
    \/ \E d \in TestSteps : RlTick(d)

SpecTest == InitTest /\ [][NextTest]_vars

\* Two workers of one orchestrator on a config of two jobs.
InitTwoJobs ==
    /\ InitTable(SharedPool)
    /\ InitNoMessage
    /\ InitJobsOf(Jobs)
    /\ InitNoSupervisor
    /\ InitNoCheckpoints
    /\ InitStores

NextJobs ==
    \/ \E a \in Seeded : AddAccount(a, SeedCred)
    \/ \E w \in Workers : WorkerStep(w) \/ BackoffElapse(w)

SpecJobs == InitTwoJobs /\ [][NextJobs]_vars

\* The workers under the supervisor's cancellation and the shutdown signal.
NextCancel ==
    \/ EnvStep
    \/ \E w \in Workers : WorkerStep(w)
    \/ Signal
    \/ \E w \in Workers : WorkerStop(w) \/ Cancel(w)

SpecCancel == Init /\ [][NextCancel]_vars

\* Clock advance explored beside the backoff: to one backoff before the end
\* of the cooldown that release(success=True) sets.
BackoffSteps == {cooldown_seconds \div 4 - ACQUIRE_BACKOFF}

\* The workers on one pool, with the clock followed through acquire's backoff.
NextBackoff ==
    \/ \E d \in BackoffSteps : Tick(d)
    \/ \E a \in Seeded : AddAccount(a, SeedCred)
    \/ \E w \in Workers : WorkerStep(w) \/ BackoffElapse(w)

SpecBackoff == Init /\ [][NextBackoff]_vars

\* One exception message, raised both in a scrape and in a health probe.
InitClassify ==
    /\ InitTable(SharedPool)
    /\ msg \in Messages
    /\ workerClass = "none"
    /\ hmClass = "none"
    /\ InitJobs
    /\ InitNoSupervisor
    /\ InitNoCheckpoints
    /\ InitStores

NextClassify == WorkerClassify \/ HmClassify

SpecClassify == InitClassify /\ [][NextClassify]_vars

\* A row released with success at time 0.
UsedRow == ReleaseRow(NewRow, TRUE, 0)

\* Tables orchestrate starts on: every account seeded and fresh, or one
\* account not seeded yet beside two that were just used.
SupTables ==
    {[a \in Accounts |-> NewRow],
     [a \in Accounts |-> IF a \in Seeded THEN UsedRow ELSE NoRow]}

\* orchestrate started on an accounts.db: no worker task exists yet.
InitSup ==
    /\ rows \in SupTables
    /\ now = 0
    /\ ticks = 0
    /\ shutdown = FALSE
    /\ poolOf = SharedPool
    /\ lock = [p \in Pools |-> Free]
    /\ pc = [w \in Workers |-> "unborn"]
    /\ lease = [w \in Workers |-> NoAccount]
    /\ sel = [w \in Workers |-> NoAccount]
    /\ acqNow = [w \in Workers |-> 0]
    /\ err = [w \in Workers |-> "none"]
    /\ errAt = [w \in Workers |-> 0]
    /\ flips = [w \in Workers |-> 0]
    /\ jobs = 0
    /\ hmTodo = {}
    /\ hmFails = [a \in Accounts |-> 0]
    /\ cycles = 0
    /\ InitNoMessage
    /\ InitJobs
    /\ InitNoCheckpoints
    /\ InitStores
    /\ supPc = "loop"
    /\ registry = <<>>
    /\ next_worker_id = 0
    /\ ready = 0
    /\ target_workers = 0
    /\ to_cancel = 0
    /\ reaped = 0
    /\ health_failed = FALSE
    /\ supTicks = 0

\* The supervisor, the workers it spawns, seeding and the shutdown signal.
\* The clock advances through acquire's backoff only: health_report counts
\* rows by status alone, and no cooldown ends within the ticks followed.
NextSup ==
    \/ SupStep
    \/ Signal
    \/ \E a \in Accounts \ Seeded : AddAccount(a, SeedCred)
    \/ \E w \in Workers : WorkerStep(w) \/ BackoffElapse(w) \/ WorkerStop(w)

SpecSup == InitSup /\ [][NextSup]_vars

\* =================================================================== claims
\* A worker's lease is live once acquire has returned it and until the first
\* release, cooldown or quarantine call on it.
Live(w) == lease[w] # NoAccount /\ flips[w] = 0

\* The worker is between acquire's return and its first flip-back call.
Using(w) == Live(w) /\ pc[w] \in {"scrape", "release_fail"}

\* C1: at any instant an account has at most one live lease: no two workers
\* hold live leases on the same account_id.
C1_AtMostOneLiveLease ==
    \A w \in Workers : \A v \in Workers \ {w} :
        (Using(w) /\ Using(v)) => lease[w] # lease[v]

\* C2: the ready->leased transition is atomic at the store: the UPDATE that
\* completes an acquire flips a row that is still 'ready', so two concurrent
\* acquire calls (also through separate AccountPool instances) never both
\* lease the same account.
C2_FlipOnlyOnReadyRow ==
    [][\A w \in Workers :
          (pc[w] = "mark" /\ pc'[w] \in {"scrape", "sleep5"}) =>
              /\ rows[sel[w]].status = "ready"
              /\ \A v \in Workers \ {w} : ~(Live(v) /\ lease[v] = sel[w])]_vars

\* The `now` bound to the SELECT a worker is about to run.
QueryNow(w) == IF pc[w] = "acquire" THEN now ELSE acqNow[w]

\* C3: acquire only leases an account that at selection time has
\* status='ready' and cooldown_until <= now and whose fail_count is minimal
\* among all such accounts, and it sets that account's status to 'leased'.
C3_AcquireSelectsEligibleMinimal ==
    [][\A w \in Workers :
          /\ (pc[w] \in {"acquire", "backoff"} /\ pc'[w] = "mark") =>
                LET a == sel'[w] IN
                /\ a \in Accounts
                /\ rows[a] # NoRow
                /\ rows[a].status = "ready"
                /\ rows[a].cooldown_until <= QueryNow(w)
                /\ rows[a].cooldown_until <= now
                /\ \A b \in Accounts :
                      (/\ rows[b] # NoRow
                       /\ rows[b].status = "ready"
                       /\ rows[b].cooldown_until <= QueryNow(w))
                      => rows[a].fail_count <= rows[b].fail_count
          /\ (pc[w] = "mark" /\ pc'[w] \in {"scrape", "sleep5"}) =>
                /\ lease'[w] = sel[w]
                /\ rows'[sel[w]].status = "leased"]_vars

\* C3 witness: a SELECT has just chosen between two eligible accounts with
\* different fail_count.
C3_Witness ==
    \E w \in Workers : \E b \in Accounts :
        /\ pc[w] = "mark"
        /\ b # sel[w]
        /\ rows[b] # NoRow
        /\ rows[b].status = "ready"
        /\ rows[b].cooldown_until <= now
        /\ rows[b].fail_count > rows[sel[w]].fail_count

\* C4: a worker cancelled while it holds a lease releases it before its task
\* exits: once the task has finished, the account it had leased is no longer
\* in status 'leased'.
C4_CancelledWorkerReleases ==
    [][\A w \in Workers :
          (Using(w) /\ pc'[w] = "exited") =>
              rows'[lease[w]].status # "leased"]_vars

\* C5: every lease a worker acquires is flipped back by exactly one of
\* release, cooldown, quarantine before the worker's next loop iteration.
C5_ExactlyOneFlipBack ==
    \A w \in Workers :
        (pc[w] \in {"top", "sleep10"} /\ lease[w] # NoAccount) => flips[w] = 1

\* C6: quarantine is terminal for the core: no step changes the status of a
\* quarantined account.
C6_QuarantineTerminal ==
    [][\A a \in Accounts :
          (rows[a] # NoRow /\ rows[a].status = "quarantine")
              => rows'[a].status = "quarantine"]_vars

\* C7: after the worker's handling of an auth-classified scrape error has
\* completed, the leased account has status='quarantine', last_error='auth'.
C7_AuthErrorQuarantines ==
    [][\A w \in Workers :
          (pc[w] = "release_fail" /\ err[w] = "auth" /\ pc'[w] = "sleep10") =>
              /\ rows'[lease[w]].status = "quarantine"
              /\ rows'[lease[w]].last_error = "auth"]_vars

\* C8: after the worker's handling of a rate-limit-classified scrape error
\* raised at time t has completed, the account has status='ready' and
\* cooldown_until >= t + 120.
C8_RateLimitCoolsDown120 ==
    [][\A w \in Workers :
          (pc[w] = "release_fail" /\ err[w] = "rate-limit"
                                  /\ pc'[w] = "sleep10") =>
              /\ rows'[lease[w]].status = "ready"
              /\ rows'[lease[w]].cooldown_until >= errAt[w] + 120]_vars

\* C9: double-release is a no-op: a release on a lease that cooldown,
\* quarantine or release has already flipped back leaves the row unchanged.
C9_DoubleReleaseNoOp ==
    [][\A w \in Workers :
          (pc[w] = "release_fail" /\ flips[w] >= 1 /\ pc'[w] = "sleep10") =>
              rows'[lease[w]] = rows[lease[w]]]_vars

\* C10: release(lease, success) sets status='ready'; on success
\* cooldown_until = now + cooldown_base/4 and fail_count = max(0, fc-1); on
\* failure cooldown_until = now + cooldown_base and fail_count = fc+1
\* (cooldown_base = 60); a fresh account released with success keeps
\* fail_count = 0.
C10_ReleaseTransitions ==
    [][\A w \in Workers :
          /\ (pc[w] = "scrape" /\ pc'[w] = "top") =>
                LET a == lease[w] IN
                /\ rows'[a].status = "ready"
                /\ 4 * (rows'[a].cooldown_until - now) = 60
                /\ rows'[a].fail_count =
                      (IF rows[a].fail_count >= 1
                       THEN rows[a].fail_count - 1 ELSE 0)
                /\ rows'[a].last_error = rows[a].last_error
          /\ (pc[w] = "release_fail" /\ pc'[w] = "sleep10") =>
                LET a == lease[w] IN
                /\ rows'[a].status = "ready"
                /\ rows'[a].cooldown_until = now + 60
                /\ rows'[a].fail_count = rows[a].fail_count + 1
                /\ rows'[a].last_error = rows[a].last_error]_vars

\* C10 witness: a worker has just released, with success, the lease of an
\* account whose fail_count was 0.
C10_Witness ==
    \E w \in Workers :
        /\ pc[w] = "top"
        /\ lease[w] # NoAccount
        /\ flips[w] = 1
        /\ rows[lease[w]].status = "ready"
        /\ rows[lease[w]].fail_count = 0
        /\ rows[lease[w]].cooldown_until = now + 15

\* C11: cooldown(lease, s, reason) sets only status='ready', cooldown_until =
\* now + s and last_error = reason, leaving fail_count unchanged;
\* quarantine(lease, reason) sets only status='quarantine' and last_error =
\* reason, leaving cooldown_until and fail_count unchanged; neither modifies
\* any row other than the lease's own.
C11_CooldownQuarantineFrame ==
    [][\A w \in Workers :
          /\ (pc[w] = "scrape" /\ pc'[w] = "release_fail"
                               /\ err'[w] = "rate-limit") =>
                LET a == lease[w] IN
                /\ rows'[a].status = "ready"
                /\ rows'[a].cooldown_until = now + 120
                /\ rows'[a].last_error = "rate-limit"
                /\ rows'[a].fail_count = rows[a].fail_count
                /\ \A b \in Accounts \ {a} : rows'[b] = rows[b]
          /\ (pc[w] = "scrape" /\ pc'[w] = "release_fail"
                               /\ err'[w] = "auth") =>
                LET a == lease[w] IN
                /\ rows'[a].status = "quarantine"
                /\ rows'[a].last_error = "auth"
                /\ rows'[a].cooldown_until = rows[a].cooldown_until
                /\ rows'[a].fail_count = rows[a].fail_count
                /\ \A b \in Accounts \ {a} : rows'[b] = rows[b]]_vars

\* C11 witness: pool.cooldown has just run on the lease of an account with
\* a failure on record, beside another account in the table.
C11_Witness ==
    \E w \in Workers : \E b \in Accounts :
        /\ pc[w] = "release_fail"
        /\ err[w] = "rate-limit"
        /\ flips[w] = 1
        /\ b # lease[w]
        /\ rows[b] # NoRow
        /\ rows[lease[w]].fail_count >= 1
        /\ rows[lease[w]].cooldown_until = now + 120

\* C12: when no account is eligible, acquire retries once after the backoff;
\* on a second miss it fails, leaving every account row unchanged; if an
\* account has become eligible (status='ready' and cooldown_until <= now)
\* during the backoff, the second attempt leases it.
C12_RetryOnceThenFail ==
    [][\A w \in Workers :
          /\ (pc[w] = "acquire" /\ pc'[w] = "backoff") => rows' = rows
          /\ (pc[w] = "backoff" /\ pc'[w] # "backoff") =>
                IF \E a \in Accounts : /\ rows[a] # NoRow
                                       /\ rows[a].status = "ready"
                                       /\ rows[a].cooldown_until <= now
                THEN pc'[w] = "mark"
                ELSE pc'[w] = "sleep10" /\ rows' = rows]_vars

\* C13: the health manager writes a probe outcome only to a row whose status
\* is still 'ready' at write time: a row leased or quarantined after the
\* snapshot is not modified by that probe's outcome.
C13_HmWritesOnlyReadyRows ==
    [][\A a \in Accounts :
          (a \in hmTodo /\ a \notin hmTodo' /\ rows[a].status # "ready")
              => rows'[a] = rows[a]]_vars

\* C14: error classification is shared between the health manager and the
\* worker: every error message gets the same class from both, among
\* rate-limit, auth and other/network.
C14_SharedClassification ==
    (workerClass # "none" /\ hmClass # "none") =>
        /\ (workerClass = "rate-limit") <=> (hmClass = "rate-limit")
        /\ (workerClass = "auth") <=> (hmClass = "auth")
        /\ (workerClass = "other") <=> (hmClass = "network")

\* C15: a job is never selected while now < next_eligible_ts: once a run of
\* job j has recorded next_eligible_ts = T in job_state.json, no worker's
\* ready set contains j and no worker selects j before T; a job with no
\* entry is ready.
C15_NoSelectionBeforeEligible ==
    [][\A w \in Workers :
          (pc[w] = "top" /\ pc'[w] = "acquire") =>
              /\ job'[w] \in Jobs
              /\ \A j \in Jobs :
                    (j = job'[w] \/ j \in ReadyJobs(w)) =>
                        now >= jobFile[j].next_eligible_ts
              /\ \A j \in catalog : jobFile[j].absent => j \in ReadyJobs(w)]_vars

\* C16: after any run of a job, whether the scrape succeeded or failed, the
\* worker has set last_run_ts = now and next_eligible_ts = now + d with d in
\* [1200, 1800] and has persisted the job state to job_state.json.
C16_JobMarkedAfterAnyRun ==
    [][\A w \in Workers :
          (\/ pc[w] = "scrape" /\ pc'[w] = "top"
           \/ pc[w] = "release_fail" /\ pc'[w] = "sleep10") =>
              LET j == job[w] IN
              /\ ~job_state'[w][j].absent
              /\ job_state'[w][j].last_run_ts = now
              /\ job_state'[w][j].next_eligible_ts >= now + 1200
              /\ job_state'[w][j].next_eligible_ts <= now + 1800
              /\ jobFile'[j] = job_state'[w][j]]_vars

\* C17: at most one completion acknowledgement per job per cycle: when a
\* worker records a completion of job j, no completion of j recorded by a
\* worker is still within its cycle (before the next_eligible_ts it
\* recorded).
C17_AtMostOneCompletionPerCycle ==
    [][\A w \in Workers :
          (pc[w] = "scrape" /\ pc'[w] = "top") =>
              \A v \in Workers :
                  \/ job_state[v][job[w]].absent
                  \/ now >= job_state[v][job[w]].next_eligible_ts]_vars

\* C18: at the end of every supervisor tick the number of registered workers
\* equals target = floor(0.75 * ready), ready being the count read from
\* health_report in that tick.
C18_FleetEqualsTarget ==
    supPc = "sleep" =>
        /\ Len(registry) = target_workers
        /\ 4 * target_workers <= 3 * ready
        /\ 3 * ready < 4 * target_workers + 4

\* C18 as amended: at the end of every supervisor tick the number of
\* registered workers equals target = floor(0.75 * ready) less the workers
\* that the tick's reap loop dropped because their task had finished.
C18_FleetEqualsTargetLessReaped ==
    supPc = "sleep" =>
        /\ Len(registry) + reaped = target_workers
        /\ 4 * target_workers <= 3 * ready
        /\ 3 * ready < 4 * target_workers + 4

\* C18 witness: a tick has ended in which the reap loop dropped a worker
\* that the target counted.
C18_Witness ==
    /\ supPc = "sleep"
    /\ reaped >= 1
    /\ target_workers >= 1
    /\ Len(registry) < target_workers

\* C19: the 'ready' figure from which the supervisor computes its target is
\* the count of eligible accounts (status='ready' and cooldown_until <= now);
\* accounts in cooldown, leased or quarantined do not count.  (The figure is
\* 0 when health_report raised.)
C19_ReadyCountsEligibleOnly ==
    [][(supPc = "report" /\ supPc' # "report") =>
          \/ ready' = 0
          \/ ready' = Cardinality({ a \in Accounts :
                                      /\ rows[a] # NoRow
                                      /\ rows[a].status = "ready"
                                      /\ rows[a].cooldown_until <= now })]_vars

\* C20: scale-down cancels excess workers in registration order, lowest
\* worker id first, and drops a worker from the registry only after its
\* task has been awaited and has finished: a worker still running is never
\* removed from the registry by scale-down.
C20_ScaleDownOrderAndDrop ==
    [][/\ (supPc = "cancel" /\ supPc' = "await") =>
             \A w \in Workers :
                 (pc[w] # pc'[w]) =>
                     \E i \in 1..Len(registry) :
                         /\ WorkerOfId[registry[i] + 1] = w
                         /\ \A m \in 1..Len(registry) :
                               registry[i] <= registry[m]
       /\ (supPc \in {"cancel", "await"}) =>
             \A i \in 1..Len(registry) :
                 (\A m \in 1..Len(registry') : registry'[m] # registry[i]) =>
                     /\ supPc = "await"
                     /\ pc[WorkerOfId[registry[i] + 1]] \in {"exited", "cancelled"}
                     /\ (pc[WorkerOfId[registry[i] + 1]] = "exited"
                            /\ ~shutdown) => i = 1]_vars

\* C20 witness: scale-down has cancelled, awaited and dropped worker 0 while
\* worker 1 stays registered and running.
C20_Witness ==
    /\ supPc = "sleep"
    /\ ~shutdown
    /\ registry = <<1>>
    /\ pc[WorkerOfId[1]] = "exited"
    /\ pc[WorkerOfId[2]] \notin {"unborn", "exited", "cancelled"}

\* C21: shutdown is cooperative and complete: once orchestrate has left its
\* shutdown loop and returned, no worker task it created is still running.
C21_ShutdownLeavesNoWorker ==
    supPc = "done" =>
        \A w \in Workers : pc[w] # "unborn" => Done(w)

\* C22: a health_report that raises in a supervisor tick terminates no
\* worker: in that tick the supervisor's scale-down cancels no running task.
C22_StoreFailureKeepsWorkers ==
    [][(health_failed /\ supPc = "cancel" /\ supPc' = "await")
          => \A w \in Workers : Done(w)' => Done(w)]_vars

\* C28: add_account on an account id that already has a row, whatever its
\* status, leaves status, cooldown_until, fail_count, last_error and
\* proxy_id as they were, and the table keeps one row per account id: a step
\* that replaces the credentials of a row changes nothing else in the table.
C28_AddAccountKeepsRuntimeState ==
    [][\A a \in Accounts :
          (Present(a) /\ rows'[a].cred # rows[a].cred) =>
              /\ rows'[a].status = rows[a].status
              /\ rows'[a].cooldown_until = rows[a].cooldown_until
              /\ rows'[a].fail_count = rows[a].fail_count
              /\ rows'[a].last_error = rows[a].last_error
              /\ rows'[a].proxy_id = rows[a].proxy_id
              /\ \A b \in Accounts \ {a} : rows'[b] = rows[b]]_vars

\* Two accounts that were added again with other credentials: one is under
\* lease to a scraping worker, the other is quarantined for an auth error.
C28_Witness ==
    \E a, b \in Accounts :
        /\ Present(a) /\ rows[a].status = "leased" /\ rows[a].cred # SeedCred
        /\ \E w \in Workers : lease[w] = a /\ pc[w] = "scrape"
        /\ Present(b) /\ rows[b].status = "quarantine"
        /\ rows[b].last_error = "auth" /\ rows[b].cred # SeedCred

\* C30: for every run of a job by a worker, the end checkpoint (after the
\* scrape returned) and the error checkpoint (after it raised) are written
\* only if the start checkpoint of that run was written before.
C30_StartWritePrecedesEndWrite ==
    [][\A w \in Workers :
          (/\ ckAvail
           /\ \/ pc[w] = "scrape" /\ pc'[w] = "top"
              \/ pc[w] = "release_fail" /\ pc'[w] = "sleep10")
          => started[w]]_vars

C24_Read(k) ==
    IF att[k].row = NoBucket
    THEN [capacity |-> DEFAULT_CAPACITY, tokens |-> DEFAULT_TOKENS,
          refill_rate |-> DEFAULT_REFILL, updated_at |-> att[k].now]
    ELSE att[k].row

\* What an attempt stores and returns, given the refilled amount.
C24_Outcome(k, refilled) ==
    /\ bucket'.updated_at = att[k].now
    /\ att[k].row = NoBucket =>
          /\ bucket'.capacity = DEFAULT_CAPACITY
          /\ bucket'.refill_rate = DEFAULT_REFILL
    /\ IF refilled >= call[k].tokens
       THEN /\ rlPc'[k] = "idle"
            /\ bucket'.tokens = refilled - call[k].tokens
       ELSE /\ rlPc'[k] = "check"
            /\ bucket'.tokens = refilled

\* C24 as stated: each attempt refills to
\* min(capacity, tokens + refill_rate * (now - updated_at)), on the default
\* row {5, 5, 5} if the bucket is missing; it returns true and stores
\* refilled - requested iff refilled >= requested, otherwise stores the
\* refilled amount and returns false; updated_at becomes now.
C24_RefillThenDeduct ==
    [][\A k \in Callers :
          (rlPc[k] = "write" /\ rlPc'[k] # "write") =>
              LET r == C24_Read(k)
                  raw == r.tokens + r.refill_rate * (att[k].now - r.updated_at)
              IN C24_Outcome(k, IF raw <= r.capacity THEN raw ELSE r.capacity)]_vars

\* C24 with the elapsed time never counted below zero: each attempt refills
\* to min(capacity, tokens + refill_rate * max(0, now - updated_at)), now
\* being the time the attempt read before its SELECT; the rest as stated.
C24_RefillClampedThenDeduct ==
    [][\A k \in Callers :
          (rlPc[k] = "write" /\ rlPc'[k] # "write") =>
              LET r == C24_Read(k)
                  e == IF att[k].now >= r.updated_at
                       THEN att[k].now - r.updated_at ELSE 0
                  raw == r.tokens + r.refill_rate * e
              IN C24_Outcome(k, IF raw <= r.capacity THEN raw ELSE r.capacity)]_vars

\* The attempt of the example: capacity 10, refill 5, tokens 0 at t0, read
\* at t0 + 3 s.
C24_Witness ==
    \E k \in Callers :
        /\ rlPc[k] = "write"
        /\ att[k].row # NoBucket
        /\ att[k].row.capacity = 200
        /\ att[k].row.refill_rate = 5
        /\ att[k].row.tokens = 0
        /\ att[k].now = att[k].row.updated_at + 60

\* C26: timeouts are strict: an acquire called at time t with a finite
\* timeout never waits past t + timeout; in particular it starts no sleep
\* that ends after its deadline.
C26_StrictTimeout ==
    \A k \in Callers :
        (rlPc[k] = "sleep" /\ call[k].deadline # NoDeadline)
            => wake[k] <= call[k].deadline

\* C27: ensure_bucket on a bucket that has a row leaves the row as it is,
\* whatever the arguments; on a bucket without one it inserts the row with
\* the capacity and refill_rate given, tokens = capacity, updated_at = now.
C27_EnsureIdempotent ==
    [][/\ (calls' = calls + 1 /\ rlPc' = rlPc /\ bucket # NoBucket)
              => bucket' = bucket
       /\ \A k \in Callers :
             (rlPc[k] = "ens_insert" /\ rlPc'[k] = "idle") =>
                 IF bucket # NoBucket
                 THEN bucket' = bucket
                 ELSE bucket' = [capacity |-> call[k].capacity,
                                 tokens |-> call[k].capacity,
                                 refill_rate |-> call[k].refill_rate,
                                 updated_at |-> call[k].now]]_vars

\* After the clock advanced, the row is still the one the first
\* ensure_bucket inserted, and the two calls made since were ensure_bucket
\* calls: an acquire would have moved tokens or updated_at.
C27_Witness ==
    /\ calls = 3
    /\ \A k \in Callers : rlPc[k] = "idle"
    /\ rlNow >= 60
    /\ bucket # NoBucket
    /\ bucket.updated_at = 0
    /\ bucket.tokens = bucket.capacity
    /\ bucket.capacity = 40

\* C25: on the test's freshly ensured bucket (capacity 2, refill 1), the
\* first two acquire(1, timeout=0.1) return true and the third, made within
\* 100 ms of the first, returns false.
C25_ThirdAcquireFails ==
    (Len(testOk) = 3 /\ testIssued[3] <= testIssued[1] + 2)
        => testOk = <<TRUE, TRUE, FALSE>>

\* C29: load_progress(job) returns exactly the checkpoint of the most
\* recent save_progress(job, x), the empty object included, and None when
\* nothing was saved for that job, whatever was saved for other job ids.
C29_LoadReturnsLastSave ==
    [][(cpLoaded.value = Pending /\ cpLoaded'.value # Pending)
          => cpLoaded'.value = cpSaved[cpLoaded.job]]_vars

\* The empty object loaded for one job while the other job holds the
\* test's checkpoint.
C29_Witness ==
    /\ cpLoaded = [job |-> "job-1", value |-> Dict(<<>>)]
    /\ cpSaved["job-1"] = Dict(<<>>)
    /\ cpSaved["job-2"] # NoDict
    /\ Len(cpSaved["job-2"].items) = 2

\* C31: on a store bootstrapped only by the core, once a worker has started
\* a job, WorkerCheckpointStore.get(worker_id) returns a row holding the
\* leased account_id, the job's subreddit and null post/comment ids.
C31_CheckpointPersistedAtStart ==
    \A w \in Workers :
        pc[w] = "scrape" =>
            /\ ckpt[w] # NoCkpt
            /\ ckpt[w].account_id = lease[w]
            /\ ckpt[w].last_subreddit = last_subreddit(job[w])
            /\ ckpt[w].last_post_id = NULL
            /\ ckpt[w].last_comment_id = NULL

\* C40: the supervisor leaves its reconcile loop only when the shutdown
\* flag is set (its own task is never cancelled here): cancelling and
\* awaiting a worker during scale-down never makes it leave the loop, at
\* whatever await the worker was cancelled.
C40_LoopLeftOnlyOnShutdown ==
    [][(supPc # "stopping" /\ supPc' = "stopping") => shutdown]_vars

\* C38: a job cooldown persisted by one worker is not lost by another
\* worker's persist: when a worker persists its job state after running a
\* job, the job_state.json entry of every other job that has one is left
\* as it was.
C38_PersistKeepsOtherEntries ==
    [][\A w \in Workers :
          (pc[w] = "scrape" /\ pc'[w] = "top") =>
              \A j \in Jobs \ {job[w]} :
                  ~jobFile[j].absent => jobFile'[j] = jobFile[j]]_vars

\* The step is a JobQueue call of this name that returned r.
QueueCall(name, r) ==
    /\ jqCount'.calls = jqCount.calls + 1
    /\ jqLast'.op = name
    /\ jqLast'.ret = r

\* C39: JobQueue never loses or duplicates a job: the queued and the
\* inflight jobs together number the enqueues less the successful acks and
\* the successful nack(requeue=false) calls, whatever the order of calls and
\* with ids that may repeat; and an ack or nack of an id that is not
\* inflight, or a dequeue on an empty queue, changes neither list.
C39_Conserved ==
    Len(jqQueue) + Cardinality(InflightIds)
        = jqCount.enqueue - jqCount.ack - jqCount.drop

C39_NoJobLostOrDuplicated ==
    /\ []C39_Conserved
    /\ [][(\/ QueueCall("ack", "false")
           \/ QueueCall("nack", "false")
           \/ QueueCall("dequeue", "none"))
              => /\ jqQueue' = jqQueue
                 /\ jqInflight' = jqInflight]_vars

\* C32: dequeue moves exactly one job from the queue to inflight; a
\* successful ack deletes the job from inflight and leaves the queue alone,
\* so that size() drops by one inflight job only; a successful
\* nack(requeue=true) deletes the job from inflight and appends it to the
\* queue with one more attempt and enqueued_at = now + backoff > now.
C32_InflightLifecycle ==
    [][/\ QueueCall("dequeue", "job") =>
            /\ Len(jqQueue') = Len(jqQueue) - 1
            /\ Cardinality(InflightIds') = Cardinality(InflightIds) + 1
            /\ jqInflight'[jqLast'.id] # NotInflight
       /\ QueueCall("ack", "true") =>
            /\ jqQueue' = jqQueue
            /\ InflightIds' = InflightIds \ {jqLast'.id}
            /\ size' = <<size[1], size[2] - 1>>
       /\ QueueCall("nack_requeue", "true") =>
            /\ InflightIds' = InflightIds \ {jqLast'.id}
            /\ jqQueue' = Append(jqQueue,
                   [jqInflight[jqLast'.id] EXCEPT
                       !.attempts = @ + 1,
                       !.enqueued_at = jqNow + jqLast'.backoff])
            /\ jqNow + jqLast'.backoff > jqNow]_vars

\* Number of positions of l holding v; number of targets satisfying a test.
Occurrences(v, l) == Cardinality({ n \in DOMAIN l : l[n] = v })
Subs(listing, tf) ==
    Cardinality({ n \in DOMAIN computed_targets :
        /\ computed_targets[n].type = "SubmissionsTarget"
        /\ computed_targets[n].listing = listing
        /\ computed_targets[n].time_filter = tf })
Searches(q, tf) ==
    Cardinality({ n \in DOMAIN computed_targets :
        /\ computed_targets[n].type = "SearchTarget"
        /\ computed_targets[n].query = q
        /\ computed_targets[n].time_filter = tf })
Configured == IF kwargs.time_filters.none THEN <<>> ELSE kwargs.time_filters.list
TimeFilters == {"day", "week", None}
Queries == {"a", "b"}

HasSearch == In("search", kwargs.listing_types)
NoQueries == kwargs.search_queries.none \/ kwargs.search_queries.list = <<>>

\* The listing clauses of C34 and the limit clause.
C34_Listings ==
    /\ \A l \in {"top", "controversial"}, tf \in TimeFilters :
          Subs(l, tf) = Occurrences(l, kwargs.listing_types)
              * (IF Configured = <<>>
                 THEN (IF tf = None THEN 1 ELSE 0)
                 ELSE Occurrences(tf, Configured))
    /\ \A l \in {"new", "hot"}, tf \in TimeFilters :
          Subs(l, tf) = IF tf = None
                        THEN Occurrences(l, kwargs.listing_types) ELSE 0
    /\ \A n \in DOMAIN computed_targets :
          computed_targets[n].limit = kwargs.per_listing_limit

\* C34 as stated: TOP and CONTROVERSIAL give one SubmissionsTarget per
\* configured time filter, or one with null filter if none is configured;
\* every other listing but SEARCH gives one with null filter; SEARCH gives
\* one SearchTarget per pair of a query and a configured time filter; every
\* target carries per_listing_limit.
C34_TargetsPerConfiguredFilter ==
    planPc = "planned" =>
        /\ C34_Listings
        /\ \A q \in Queries, tf \in TimeFilters :
              Searches(q, tf) =
                  IF HasSearch
                  THEN Occurrences(q, kwargs.search_queries.list)
                           * Occurrences(tf, Configured)
                  ELSE 0

\* C34 amended: as above, except that SEARCH with no time filter configured
\* gives one SearchTarget with null filter per query.
C34_TargetsPerFilterOrNull ==
    planPc = "planned" =>
        /\ C34_Listings
        /\ \A q \in Queries, tf \in TimeFilters :
              Searches(q, tf) =
                  IF HasSearch
                  THEN Occurrences(q, kwargs.search_queries.list)
                           * (IF Configured = <<>>
                              THEN (IF tf = None THEN 1 ELSE 0)
                              ELSE Occurrences(tf, Configured))
                  ELSE 0

\* The plan of the options [NEW, TOP, SEARCH], [DAY], two queries, limit 50,
\* and a plan of a search without time filters.
C34_Witness ==
    /\ planPc = "planned"
    /\ kwargs.listing_types = <<"new", "top", "search">>
    /\ kwargs.time_filters = Some(<<"day">>)
    /\ kwargs.search_queries = Some(<<"a", "b">>)
    /\ kwargs.per_listing_limit = 50
    /\ kwargs.user_timelines = NoList
    /\ expand_to_targets(computed_targets) =
           <<SubmissionsTarget("new", None, 50),
             SubmissionsTarget("top", "day", 50),
             SearchTarget("a", "new", "day", 50),
             SearchTarget("b", "new", "day", 50)>>

\* C35: with SEARCH among listing_types and search_queries empty or absent
\* the construction of RedditScrapeOptions raises; with SEARCH absent and
\* the other fields valid, empty or absent search_queries is accepted.
C35_SearchRequiresQueries ==
    planPc # "new" =>
        /\ (HasSearch /\ NoQueries) => planPc = "raised"
        /\ (/\ ~HasSearch
            /\ NoQueries
            /\ kwargs.listing_types # <<>>
            /\ kwargs.per_listing_limit > 0) => planPc # "raised"

\* The test's case: listing_types = [SEARCH], search_queries = [] raised.
C35_Witness ==
    /\ planPc = "raised"
    /\ kwargs.listing_types = <<"search">>
    /\ kwargs.search_queries = Some(<<>>)
    /\ kwargs.per_listing_limit = 100

\* C37: tokens are not double-spent across limiter instances sharing one
\* store: whenever an acquire is granted, the bucket's row, refilled up to
\* the time of the attempt, holds the tokens granted; so two acquire(1) on
\* a bucket that holds one token and does not refill cannot both succeed.
C37_NoDoubleSpend ==
    [][\A k \in Callers :
          (rlPc[k] = "write" /\ rlPc'[k] = "idle") =>
              Refill(bucket, att[k].now) >= call[k].tokens]_vars

\* C33: every account row has fail_count >= 0, cooldown_until >= 0 and a
\* status among ready, leased and quarantine, in every state reached by
\* add_account, the workers' acquire, release, cooldown and quarantine and
\* the health manager's probe outcomes; and no step deletes a row.
C33_RowWellFormed ==
    \A a \in Accounts :
        rows[a] # NoRow =>
            /\ rows[a].fail_count >= 0
            /\ rows[a].cooldown_until >= 0
            /\ rows[a].status \in {"ready", "leased", "quarantine"}

C33_RowsWellFormedAndKept ==
    /\ []C33_RowWellFormed
    /\ [][\A a \in Accounts : rows[a] # NoRow => rows'[a] # NoRow]_vars

\* A probe succeeded on a row without failures while another account is
\* leased and has failed before.
C33_Witness ==
    \E a, b \in Accounts :
        /\ a # b
        /\ rows[a] # NoRow /\ rows[b] # NoRow
        /\ rows[a].status = "ready" /\ rows[a].fail_count = 0
        /\ hmTodo = {} /\ cycles > 0
        /\ rows[b].status \in {"leased", "quarantine"}
        /\ rows[b].fail_count > 0
        /\ rows[b].cooldown_until > 0

\* The step writes the outcome of a network-classified probe failure of a.
NetworkFailure(a) ==
    /\ a \in hmTodo
    /\ a \notin hmTodo'
    /\ rows'[a].last_error \in {"network", "repeated-failures"}

\* C36: on a network-classified probe failure the health manager
\* increments the stored fail_count; if the incremented count reaches
\* QUARANTINE_FAILS the account is quarantined, otherwise it is put in
\* cooldown for COOLDOWN_BAD seconds; so every account quarantined for
\* repeated failures has a stored fail_count >= QUARANTINE_FAILS.
C36_NetworkFailureEscalates ==
    /\ [][\A a \in Accounts :
             NetworkFailure(a) =>
                /\ rows'[a].fail_count = rows[a].fail_count + 1
                /\ IF rows'[a].fail_count >= QUARANTINE_FAILS
                   THEN rows'[a].status = "quarantine"
                   ELSE /\ rows'[a].status = "ready"
                        /\ rows'[a].cooldown_until = now + COOLDOWN_BAD]_vars
    /\ [](\A a \in Accounts :
             (Present(a) /\ rows[a].last_error = "repeated-failures") =>
                 rows[a].fail_count >= QUARANTINE_FAILS)

====
